---- MODULE Spec2Model ----
(***************************************************************************)
(* Model of the Rolodex backend: the items repository and its retrieval    *)
(* pipeline (backend/api/items.py, backend/storage.py) and the project     *)
(* aggregation (backend/api/projects.py) over the relational schema of     *)
(* backend/models.py.                                                      *)
(*                                                                         *)
(* Conventions.  A Python Optional / SQL nullable value is None == <<>>    *)
(* or Some(v) == <<v>>.  A str is a sequence of one-character strings, so  *)
(* that lower() and substring search are computed, not assumed.  A         *)
(* datetime is a natural number of clock ticks.  A row of project_items is *)
(* its key (project_id, item_id); the table is a bag, so that the primary  *)
(* key is something the insert has to keep.  The row's created_at, which   *)
(* no statement reads, is left out.                                        *)
(***************************************************************************)
EXTENDS Integers, Sequences, FiniteSets, Bags, TLC

VARIABLES
    items,          \* table items: id -> row                (models.py items_table)
    nextId,         \* number of item ids generated so far   (uuid.uuid4 in create_item)
    projects,       \* table projects: id -> row             (models.py projects_table)
    nextProjectId,  \* number of project ids generated       (uuid.uuid4 in create_project)
    project_items,  \* table project_items: a bag of rows    (models.py project_items_table)
    dialect,        \* the database the engine is bound to   (core/db.py get_engine)
    now,            \* the wall clock, dt.datetime.now(dt.timezone.utc)
    tasks,          \* background embedding tasks not yet run (asyncio.create_task)
    last,           \* the request last handled and the response it got
    chain,          \* a client following nextCursor through list_items
    RATE_BUCKETS,   \* _RATE_BUCKETS: key -> deque of the times of its accepted requests
    rate_calls,     \* the calls of rate_limit under way: worker thread -> its position
    rate_started,   \* number of calls of rate_limit started so far
    settings,       \* the cached Settings of the process      (core/config.py get_settings)
    users_table,    \* table users: the rows in insert order   (models.py users_table)
    instance,       \* _storage_proxy._instance: None or the StorageService object
    nextInstance,   \* number of StorageService objects constructed so far
    storage_calls,  \* the calls of get_storage_service under way: thread -> position
    storage_started \* number of calls of get_storage_service started so far

\* the state of the rate limiter (api/dependencies.py)
rate_vars == <<RATE_BUCKETS, rate_calls, rate_started>>

auth_vars == <<settings, users_table>>

\* the shared storage service and the calls that fetch it (storage.py)
storage_vars == <<instance, nextInstance, storage_calls, storage_started>>

vars == <<items, nextId, projects, nextProjectId, project_items, dialect, now, tasks, last, chain,
          rate_vars, auth_vars, storage_vars>>

-----------------------------------------------------------------------------
(* Bounds of the model *)

MaxItems == 2        \* item ids one behaviour can generate
MaxClock == 1        \* clock ticks one behaviour can see
MaxProjects == 1     \* project ids one behaviour can generate
MaxLinkable == 1     \* items one behaviour of SpecProjects creates
MaxChainItems == 3   \* items one behaviour of SpecChain creates
MaxChainClock == 2   \* clock ticks one behaviour of SpecChain can see
MaxSimilarItems == 3 \* items one behaviour of SpecSimilar creates
MaxWorkers == 2      \* threads that run rate_limit at the same time
MaxRateCalls == 3    \* calls of rate_limit one behaviour of SpecRate starts
MaxUsers == 2        \* accounts one behaviour of SpecAuth registers
MaxWriteItems == 2   \* items one behaviour of SpecChainWrites creates
MaxWriteClock == 1   \* clock ticks one behaviour of SpecChainWrites can see
MaxStorageCalls == 4 \* calls of get_storage_service one behaviour of SpecStorage starts

-----------------------------------------------------------------------------
(* Optional values and strings *)

None == <<>>
Some(v) == <<v>>

\* str.lower() on the characters the model uses; "E'" and "e'" stand for the letters
\* E-acute and e-acute, one character each
lower_char(c) ==
    CASE c = "A" -> "a"
      [] c = "F" -> "f"
      [] c = "L" -> "l"
      [] c = "M" -> "m"
      [] c = "S" -> "s"
      [] c = "E'" -> "e'"
      [] OTHER -> c

\* the characters outside ASCII
NonAscii == { "E'", "e'" }

\* SQL lower(): PostgreSQL (UTF-8 locale) folds every letter, SQLite only ASCII letters
sql_lower(dia, s) ==
    [i \in 1..Len(s) |-> IF dia = "sqlite" /\ s[i] \in NonAscii THEN s[i] ELSE lower_char(s[i])]

\* the comparison of a pattern character with a text character in LIKE: SQLite's LIKE
\* ignores the case of ASCII letters, PostgreSQL's compares exactly
like_char(dia, c, p) ==
    IF dia = "sqlite" /\ c \notin NonAscii /\ p \notin NonAscii
    THEN lower_char(c) = lower_char(p)
    ELSE c = p

\* text LIKE pattern: % is any run of characters, _ any one character; in PostgreSQL
\* a backslash makes the next pattern character literal (SQLite has no default escape)
RECURSIVE like_match(_, _, _)
like_match(dia, text, pattern) ==
    IF pattern = <<>> THEN text = <<>>
    ELSE IF dia = "postgresql" /\ pattern[1] = "\\"
    THEN /\ Len(pattern) >= 2 /\ text # <<>>
         /\ text[1] = pattern[2]
         /\ like_match(dia, Tail(text), SubSeq(pattern, 3, Len(pattern)))
    ELSE IF pattern[1] = "%"
    THEN \/ like_match(dia, text, Tail(pattern))
         \/ text # <<>> /\ like_match(dia, Tail(text), pattern)
    ELSE IF pattern[1] = "_"
    THEN text # <<>> /\ like_match(dia, Tail(text), Tail(pattern))
    ELSE /\ text # <<>> /\ like_char(dia, text[1], pattern[1])
         /\ like_match(dia, Tail(text), Tail(pattern))

lower(s) == [i \in 1..Len(s) |-> lower_char(s[i])]

\* Python `sub in s`
contains(s, sub) ==
    \E i \in 0..(Len(s) - Len(sub)) : SubSeq(s, i + 1, i + Len(sub)) = sub

\* Python truthiness of an Optional[str]
truthy(x) == x # None /\ x[1] # <<>>

\* Python truthiness of an Optional[float]
truthy_num(x) == x # None /\ x[1] # 0

endswith(s, suffix) ==
    Len(s) >= Len(suffix) /\ SubSeq(s, Len(s) - Len(suffix) + 1, Len(s)) = suffix

Min(a, b) == IF a <= b THEN a ELSE b
Max(a, b) == IF a >= b THEN a ELSE b

-----------------------------------------------------------------------------
(* Timestamps: _to_iso and _parse_cursor *)

Digits == <<"0", "1", "2", "3", "4", "5", "6", "7", "8", "9">>

RECURSIVE decimal(_)
decimal(n) == IF n < 10 THEN <<Digits[n + 1]>> ELSE decimal(n \div 10) \o <<Digits[(n % 10) + 1]>>

UtcOffset == <<"+", "0", "0", ":", "0", "0">>

\* datetime.isoformat() of a timezone-aware UTC datetime
isoformat(t) == decimal(t) \o UtcOffset

\* _to_iso: None stays None, a datetime is rendered with its UTC offset
to_iso(value) == IF value = None THEN None ELSE Some(isoformat(value[1]))

digit_value(c) == CHOOSE d \in 0..9 : Digits[d + 1] = c

is_digit(c) == \E d \in 0..9 : Digits[d + 1] = c

RECURSIVE number(_)
number(s) == IF Len(s) = 0 THEN 0 ELSE 10 * number(SubSeq(s, 1, Len(s) - 1)) + digit_value(s[Len(s)])

\* datetime.fromisoformat: the instant, with or without "+00:00"; None stands for ValueError
fromisoformat(s) ==
    LET body == IF endswith(s, UtcOffset) THEN SubSeq(s, 1, Len(s) - Len(UtcOffset)) ELSE s
    IN IF Len(body) > 0 /\ \A i \in 1..Len(body) : is_digit(body[i])
       THEN Some(number(body))
       ELSE None

RECURSIVE rstrip(_, _)
rstrip(s, c) == IF Len(s) > 0 /\ s[Len(s)] = c THEN rstrip(SubSeq(s, 1, Len(s) - 1), c) ELSE s

\* _parse_cursor that hands the value to fromisoformat as it is
parse_cursor_as_is(value) ==
    IF ~truthy(value) THEN None ELSE fromisoformat(value[1])

\* _parse_cursor: a trailing "Z" is read as "+00:00"; ValueError gives None
parse_cursor(value) ==
    IF ~truthy(value) THEN None
    ELSE LET v == value[1]
             normalized == rstrip(v, "Z") \o (IF endswith(v, <<"Z">>) THEN UtcOffset ELSE <<>>)
         IN fromisoformat(normalized)

-----------------------------------------------------------------------------
(* Values the model draws requests from *)

Users == {"A", "B"}

Dialects == {"postgresql", "sqlite"}

s_lamp == <<"L", "a", "m", "p">>
s_sofa == <<"S", "o", "f", "a">>
s_am == <<"A", "M">>
s_light == <<"l", "i", "t">>
s_seat == <<"s", "i", "t">>
s_acme == <<"a", "c", "m", "e">>
s_red == <<"#", "F", "f">>
s_ff == <<"f", "F">>
s_note == <<"n">>
s_url == <<"u">>

\* ItemCreate bodies (items.py ItemCreate): img_url is required, the rest optional
ItemCreates ==
    { [img_url |-> s_url, title |-> Some(s_lamp), vendor |-> Some(s_acme), price |-> Some(5),
       description |-> None, colour_hex |-> Some(s_red), category |-> Some(s_light),
       notes |-> None],
      [img_url |-> s_url, title |-> None, vendor |-> None, price |-> None,
       description |-> Some(s_lamp), colour_hex |-> None, category |-> Some(s_light),
       notes |-> None],
      [img_url |-> s_url, title |-> Some(s_sofa), vendor |-> Some(s_acme), price |-> Some(9),
       description |-> None, colour_hex |-> None, category |-> Some(s_seat),
       notes |-> Some(s_note)],
      [img_url |-> s_url, title |-> None, vendor |-> None, price |-> None,
       description |-> None, colour_hex |-> None, category |-> None,
       notes |-> None] }

\* The optional columns an ItemUpdate body can carry (items.py ItemUpdate)
UpdateFields == {"title", "vendor", "price", "description", "colour_hex", "category", "notes"}

NoUpdate == [f \in UpdateFields |-> None]

\* ItemUpdate bodies after model_dump(): an absent field and an explicit null are both None
ItemUpdates ==
    { NoUpdate,
      [NoUpdate EXCEPT !.title = Some(s_sofa)],
      [NoUpdate EXCEPT !.price = Some(3), !.notes = Some(s_note)],
      [NoUpdate EXCEPT !.colour_hex = Some(s_red), !.category = Some(s_seat)] }

\* Embedding vectors (1536 floats in the program, two integers here)
Vectors == { <<1, 0>>, <<0, 1>>, <<1, 1>> }

\* The ids a request can name: those generated so far, and 0 for an id that was never
\* generated (a uuid4 no row has)
ItemIds == 0..nextId
ProjectIds == 0..nextProjectId

-----------------------------------------------------------------------------
(* Rows and response bodies *)

\* the row create_item inserts
item_row(item_id, user_id, stored_img_url, payload, created_at) ==
    [id |-> item_id, owner_id |-> user_id, img_url |-> stored_img_url,
     title |-> payload.title, vendor |-> payload.vendor, price |-> payload.price,
     description |-> payload.description, colour_hex |-> payload.colour_hex,
     category |-> payload.category, notes |-> payload.notes,
     embedding |-> None, image_embedding |-> None, created_at |-> Some(created_at),
     updated_at |-> None]

\* ItemOut as get_item, update_item and the text branch of list_items build it from a row
item_out(row) ==
    [id |-> row.id, img_url |-> row.img_url, title |-> row.title, vendor |-> row.vendor,
     price |-> row.price, description |-> row.description, colour_hex |-> row.colour_hex,
     category |-> row.category, notes |-> row.notes, created_at |-> to_iso(row.created_at)]

\* ItemOut of the list: the select names no notes column, so notes keeps its default
list_item_out(row) == [item_out(row) EXCEPT !.notes = None]

\* ItemOut returned by create_item: built from the payload, created_at left unset
created_item_out(item_id, stored_img_url, payload) ==
    [id |-> item_id, img_url |-> stored_img_url, title |-> payload.title,
     vendor |-> payload.vendor, price |-> payload.price, description |-> payload.description,
     colour_hex |-> payload.colour_hex, category |-> payload.category,
     notes |-> payload.notes, created_at |-> None]

\* store_image without its fallback: nothing comes back when the copy fails
store_image_no_fallback(url, user_id, stored) == IF stored THEN <<"s", user_id>> \o url ELSE <<>>

\* StorageService.store_image: the public URL of the stored copy, or the original URL
store_image(url, user_id, stored) == IF stored THEN <<"s", user_id>> \o url ELSE url

\* a read of the wall clock: time may have passed since the last read
ClockReads == { t \in {now, now + 1} : t <= MaxClock }

-----------------------------------------------------------------------------
(* Query results: ORDER BY ... LIMIT n *)

\* The sequences a query may return for the row ids S under ORDER BY and LIMIT n.
\* before is the set of pairs <<x, y>> with x strictly ahead of y in the order; rows
\* the order does not separate may come in any order, and any of them may fall to
\* the LIMIT.
ordered_limit(S, n, before) ==
    LET k == Min(n, Cardinality(S))
    IN { rows \in [1..k -> S] :
           /\ \A i, j \in 1..k : i < j => (rows[i] # rows[j] /\ <<rows[j], rows[i]>> \notin before)
           /\ \A x \in S : (\A i \in 1..k : rows[i] # x) =>
                              \A i \in 1..k : <<x, rows[i]>> \notin before }

ids_of(rows) == { rows[i] : i \in 1..Len(rows) }

-----------------------------------------------------------------------------
(* Vector retrieval (storage.py) *)

SimilarityNum == 7
SimilarityDen == 10

dot(a, b) == a[1] * b[1] + a[2] * b[2]

\* 1 - (embedding <=> q) > threshold, the cosine similarity compared without division
above_threshold(e, q) ==
    /\ dot(e, q) > 0
    /\ SimilarityDen * SimilarityDen * dot(e, q) * dot(e, q)
         > SimilarityNum * SimilarityNum * dot(e, e) * dot(q, q)

\* embedding <=> q is strictly smaller for e1 than for e2 (both above the threshold)
closer(e1, e2, q) ==
    dot(e1, q) * dot(e1, q) * dot(e2, e2) > dot(e2, q) * dot(e2, q) * dot(e1, e1)

\* generate_embedding that answers a provider error with a fixed default vector
generate_embedding_default(text, provider) ==
    IF text = <<>> THEN None ELSE IF provider = None THEN Some(<<1, 0>>) ELSE provider

\* StorageService.generate_embedding: the provider's answer, [] for blank text or an error.
\* provider is what the embedding provider does with the text: None for an error or
\* an empty answer, else Some(vector).
generate_embedding(text, provider) ==
    IF text = <<>> THEN None ELSE provider

\* StorageService.search_by_embedding: the possible result lists (row ids, nearest first).
\* The statement uses the ::vector cast and the <=> operator, which only PostgreSQL
\* runs; any failure of the statement (vec = "error") is caught and gives [].
search_by_embedding(db, dia, query_embedding, user_id, limit, vec) ==
    IF query_embedding = None THEN { <<>> }
    ELSE IF dia # "postgresql" \/ vec = "error" THEN { <<>> }
    ELSE LET q == query_embedding[1]
             hits == { i \in DOMAIN db :
                         /\ db[i].owner_id = user_id
                         /\ db[i].embedding # None
                         /\ above_threshold(db[i].embedding[1], q) }
             nearer == { xy \in hits \X hits :
                           closer(db[xy[1]].embedding[1], db[xy[2]].embedding[1], q) }
         IN ordered_limit(hits, limit, nearer)

\* StorageService.semantic_search
semantic_search(db, dia, query, user_id, limit, provider, vec) ==
    LET query_embedding == generate_embedding(query, provider)
    IN IF query_embedding = None THEN { <<>> }
       ELSE search_by_embedding(db, dia, query_embedding, user_id, limit, vec)

-----------------------------------------------------------------------------
(* list_items (items.py) *)

LimitFloor == 1
LimitCeiling == 100

DefaultLimit == 20

\* the query parameter `limit: int = 20`: None stands for a request without limit
limit_param(limit) == IF limit = None THEN DefaultLimit ELSE limit[1]

\* the clamp that lets one row more through
clamp_limit_one_more(limit) == Max(LimitFloor, Min(limit, LimitCeiling)) + 1

\* limit = max(1, min(limit, 100))
clamp_limit(limit) == Max(LimitFloor, Min(limit, LimitCeiling))

\* the loop over semantic_results: TRUE when the row is kept
semantic_keep(row, req) ==
    /\ ~(truthy(req.hex) /\ truthy(row.colour_hex)
           /\ ~contains(lower(row.colour_hex[1]), lower(req.hex[1])))
    /\ ~(req.price_max # None /\ truthy_num(row.price) /\ row.price[1] > req.price_max[1])
    /\ ~(truthy(req.category) /\ row.category # req.category)
    /\ ~(truthy(req.vendor) /\ row.vendor # req.vendor)

\* func.lower(column).like(f"%{query.lower()}%"): NULL for a NULL column, which WHERE
\* treats as false
like(dia, column, query) ==
    /\ column # None
    /\ like_match(dia, sql_lower(dia, column[1]), <<"%">> \o lower(query) \o <<"%">>)

\* the WHERE clause with a cursor condition that lets the cursor's own instant through
text_where_inclusive(row, dia, user_id, req, cursor_dt) ==
    /\ row.owner_id = user_id
    /\ truthy(req.query) =>
          \/ like(dia, row.title, req.query[1])
          \/ like(dia, row.vendor, req.query[1])
          \/ like(dia, row.description, req.query[1])
          \/ like(dia, row.category, req.query[1])
    /\ truthy(req.hex) => like(dia, row.colour_hex, req.hex[1])
    /\ req.price_max # None => (row.price # None /\ row.price[1] <= req.price_max[1])
    /\ truthy(req.category) => row.category = req.category
    /\ truthy(req.vendor) => row.vendor = req.vendor
    /\ cursor_dt # None => (row.created_at # None /\ row.created_at[1] <= cursor_dt[1])

\* the WHERE clause of the text query
text_where(row, dia, user_id, req, cursor_dt) ==
    /\ row.owner_id = user_id
    /\ truthy(req.query) =>
          \/ like(dia, row.title, req.query[1])
          \/ like(dia, row.vendor, req.query[1])
          \/ like(dia, row.description, req.query[1])
          \/ like(dia, row.category, req.query[1])
    /\ truthy(req.hex) => like(dia, row.colour_hex, req.hex[1])
    /\ req.price_max # None => (row.price # None /\ row.price[1] <= req.price_max[1])
    /\ truthy(req.category) => row.category = req.category
    /\ truthy(req.vendor) => row.vendor = req.vendor
    /\ cursor_dt # None => (row.created_at # None /\ row.created_at[1] < cursor_dt[1])

\* the possible results of the text query: ORDER BY created_at DESC LIMIT limit
text_rows(db, dia, user_id, req, limit) ==
    LET cursor_dt == parse_cursor(req.cursor)
        match == { i \in DOMAIN db : text_where(db[i], dia, user_id, req, cursor_dt) }
        newer == { xy \in match \X match :
                     db[xy[1]].created_at[1] > db[xy[2]].created_at[1] }
    IN ordered_limit(match, limit, newer)

\* next_cursor taken from the first row of the page
next_cursor_first(db, rows) == IF Len(rows) > 0 THEN to_iso(db[rows[1]].created_at) ELSE None

\* next_cursor = _to_iso(rows[-1]["created_at"]) if rows else None
next_cursor(db, rows) == IF Len(rows) > 0 THEN to_iso(db[rows[Len(rows)]].created_at) ELSE None

\* the response of the semantic branch for the rows vector retrieval gave
semantic_response(db, req, limit, semantic_results) ==
    LET filtered_results == SelectSeq(semantic_results, LAMBDA i : semantic_keep(db[i], req))
    IN [items |-> [k \in 1..Min(limit, Len(filtered_results)) |->
                       list_item_out(db[filtered_results[k]])],
        nextCursor |-> None, search_type |-> "semantic"]

\* the response of the text branch for the rows the query gave
text_response(db, rows) ==
    [items |-> [k \in 1..Len(rows) |-> list_item_out(db[rows[k]])],
     nextCursor |-> next_cursor(db, rows), search_type |-> "text"]

\* list_items that answers from the semantic branch whenever it was asked to
list_items_as_requested(db, dia, user_id, req, provider, vec) ==
    LET limit == clamp_limit(limit_param(req.limit))
    IN IF req.semantic /\ truthy(req.query)
       THEN { semantic_response(db, req, limit, sr) :
                 sr \in semantic_search(db, dia, req.query[1], user_id, limit, provider, vec) }
       ELSE { text_response(db, rows) : rows \in text_rows(db, dia, user_id, req, limit) }

\* list_items: the responses the handler can give to req
list_items(db, dia, user_id, req, provider, vec) ==
    LET limit == clamp_limit(limit_param(req.limit))
        semantic_results ==
            IF req.semantic /\ truthy(req.query)
            THEN semantic_search(db, dia, req.query[1], user_id, limit, provider, vec)
            ELSE { <<>> }
        text == { text_response(db, rows) : rows \in text_rows(db, dia, user_id, req, limit) }
    IN UNION { IF Len(sr) > 0 THEN { semantic_response(db, req, limit, sr) } ELSE text :
               sr \in semantic_results }

-----------------------------------------------------------------------------
(* Item handlers (items.py) *)

\* StorageService.create_description_for_embedding: "" when no part is present
create_description_for_embedding(payload) ==
    IF \E f \in {"title", "vendor", "category", "description", "colour_hex"} : truthy(payload[f])
    THEN <<"d">>
    ELSE <<>>

\* ON DELETE CASCADE of project_items.item_id: enforced by PostgreSQL; the SQLite
\* engine is created without PRAGMA foreign_keys, so there the join rows stay
cascade_items(rows, dia, gone) ==
    IF dia = "postgresql"
    THEN [r \in { x \in DOMAIN rows : x.item_id \notin gone } |-> rows[r]]
    ELSE rows

\* delete_where without the owner_id condition
delete_where_any_owner(db, ids, user_id) ==
    [i \in DOMAIN db \ ids |-> db[i]]

\* the rows left by DELETE FROM items WHERE id IN ids AND owner_id = user_id
delete_where(db, ids, user_id) ==
    LET gone == { i \in DOMAIN db : i \in ids /\ db[i].owner_id = user_id }
    IN [i \in DOMAIN db \ gone |-> db[i]]

\* update_keys without the `if v is not None` filter
update_keys_with_none(payload) == DOMAIN payload

\* updates = {k: v for k, v in payload.model_dump().items() if v is not None}
update_keys(payload) == { f \in DOMAIN payload : payload[f] # None }

\* apply_update that also restamps created_at
apply_update_restamp(row, payload, updated_at) ==
    [f \in DOMAIN row |->
        IF f \in update_keys(payload) THEN payload[f]
        ELSE IF f \in {"updated_at", "created_at"} THEN Some(updated_at)
        ELSE row[f]]

\* UPDATE items SET **updates WHERE id = item_id
apply_update(row, payload, updated_at) ==
    [f \in DOMAIN row |->
        IF f \in update_keys(payload) THEN payload[f]
        ELSE IF f = "updated_at" THEN Some(updated_at)
        ELSE row[f]]

create_item(user_id, payload, stored, created_at) ==
    LET item_id == nextId + 1
        stored_img_url == store_image(payload.img_url, user_id, stored)
    IN /\ nextId' = item_id
       /\ now' = created_at
       /\ items' = (item_id :> item_row(item_id, user_id, stored_img_url, payload, created_at))
                     @@ items
       /\ tasks' = tasks \cup { [item_id |-> item_id, payload |-> payload] }
       /\ last' = [op |-> "create_item", user |-> user_id, status |-> 201,
                   body |-> created_item_out(item_id, stored_img_url, payload)]
       /\ UNCHANGED <<projects, nextProjectId, project_items, dialect, chain, rate_vars, auth_vars, storage_vars>>

\* an embedding task that stamps the row it writes to as updated
generate_item_embedding_restamp(task, provider, stored) ==
    LET description == create_description_for_embedding(task.payload)
        embedding == generate_embedding(description, provider)
    IN /\ tasks' = tasks \ {task}
       /\ items' = IF /\ description # <<>>
                      /\ embedding # None
                      /\ dialect = "postgresql" /\ stored
                      /\ task.item_id \in DOMAIN items
                   THEN [items EXCEPT ![task.item_id].embedding = embedding,
                                      ![task.item_id].updated_at = Some(now)]
                   ELSE items
       /\ UNCHANGED <<nextId, projects, nextProjectId, project_items, dialect, now, last, chain,
                   rate_vars, auth_vars, storage_vars>>

\* _generate_item_embedding: the background task of one created item
generate_item_embedding(task, provider, stored) ==
    LET description == create_description_for_embedding(task.payload)
        embedding == generate_embedding(description, provider)
    IN /\ tasks' = tasks \ {task}
       /\ items' = IF /\ description # <<>>
                      /\ embedding # None
                      /\ dialect = "postgresql" /\ stored
                      /\ task.item_id \in DOMAIN items
                   THEN [items EXCEPT ![task.item_id].embedding = embedding]
                   ELSE items
       /\ UNCHANGED <<nextId, projects, nextProjectId, project_items, dialect, now, last, chain,
                   rate_vars, auth_vars, storage_vars>>

get_item(user_id, item_id) ==
    /\ last' = IF item_id \in DOMAIN items /\ items[item_id].owner_id = user_id
               THEN [op |-> "get_item", user |-> user_id, status |-> 200,
                     body |-> item_out(items[item_id])]
               ELSE [op |-> "get_item", user |-> user_id, status |-> 404]
    /\ UNCHANGED <<items, nextId, projects, nextProjectId, project_items, dialect, now, tasks,
                   chain, rate_vars, auth_vars, storage_vars>>

update_item(user_id, item_id, payload, updated_at) ==
    IF update_keys(payload) = {}
    THEN /\ last' = [op |-> "update_item", user |-> user_id, status |-> 400,
                     item_id |-> item_id, req |-> payload]
         /\ UNCHANGED <<items, nextId, projects, nextProjectId, project_items, dialect, now,
                        tasks, chain, rate_vars, auth_vars, storage_vars>>
    ELSE /\ now' = updated_at
         /\ IF item_id \in DOMAIN items /\ items[item_id].owner_id = user_id
            THEN /\ items' = [items EXCEPT ![item_id] = apply_update(@, payload, updated_at)]
                 /\ last' = [op |-> "update_item", user |-> user_id, status |-> 200,
                             item_id |-> item_id, req |-> payload,
                             body |-> item_out(items'[item_id])]
            ELSE /\ items' = items
                 /\ last' = [op |-> "update_item", user |-> user_id, status |-> 404,
                             item_id |-> item_id, req |-> payload]
         /\ UNCHANGED <<nextId, projects, nextProjectId, project_items, dialect, tasks, chain,
                   rate_vars, auth_vars, storage_vars>>

\* delete_item that does not look at the row count
delete_status_silent(rowcount) == 204

\* if result.rowcount == 0: raise HTTPException(status_code=404); else 204
delete_status(rowcount) == IF rowcount = 0 THEN 404 ELSE 204

delete_item(user_id, item_id) ==
    LET left == delete_where(items, {item_id}, user_id)
    IN /\ items' = left
       /\ project_items' = cascade_items(project_items, dialect, DOMAIN items \ DOMAIN left)
       /\ last' = [op |-> "delete_item", user |-> user_id, item_id |-> item_id,
                   status |-> delete_status(Cardinality(DOMAIN items \ DOMAIN left))]
       /\ UNCHANGED <<nextId, projects, nextProjectId, dialect, now, tasks, chain, rate_vars, auth_vars, storage_vars>>

batch_delete_items(user_id, item_ids) ==
    LET left == IF item_ids = {} THEN items ELSE delete_where(items, item_ids, user_id)
    IN /\ items' = left
       /\ project_items' = cascade_items(project_items, dialect, DOMAIN items \ DOMAIN left)
       /\ last' = [op |-> "batch_delete_items", user |-> user_id, item_ids |-> item_ids,
                   status |-> 204]
       /\ UNCHANGED <<nextId, projects, nextProjectId, dialect, now, tasks, chain, rate_vars, auth_vars, storage_vars>>

\* find_similar_items that keeps the source item among the rows of the vector query
without_source_kept(similar, item_id, limit) == SubSeq(similar, 1, Min(limit, Len(similar)))

\* rows = [item for item in similar if item["id"] != item_id][:limit]
without_source(similar, item_id, limit) ==
    LET others == SelectSeq(similar, LAMBDA i : i # item_id)
    IN SubSeq(others, 1, Min(limit, Len(others)))

\* the category fallback for a source without image embedding: the caller's other
\* items, of the source's category when it has one, newest first
similar_by_category(db, user_id, item_id, limit) ==
    LET source == db[item_id]
        match == { i \in DOMAIN db :
                     /\ db[i].owner_id = user_id
                     /\ i # item_id
                     /\ truthy(source.category) => db[i].category = source.category }
        newer == { xy \in match \X match :
                     db[xy[1]].created_at[1] > db[xy[2]].created_at[1] }
    IN ordered_limit(match, limit, newer)

\* the category fallback after an exception of the vector query: category equal to the
\* source's (IS NULL for a source without category), in no stated order
similar_after_error(db, user_id, item_id, limit) ==
    LET source == db[item_id]
        match == { i \in DOMAIN db :
                     /\ db[i].owner_id = user_id
                     /\ i # item_id
                     /\ db[i].category = source.category }
    IN ordered_limit(match, limit, {})

\* find_similar_items; vec is the outcome of the vector statement, raised says that the
\* call of search_by_embedding itself raised; the response is kept with the branch
\* taken and with whether vector retrieval was tried and failed
find_similar_items(user_id, item_id, limit, vec, raised) ==
    /\ IF item_id \notin DOMAIN items \/ items[item_id].owner_id # user_id
       THEN last' = [op |-> "find_similar_items", user |-> user_id, item_id |-> item_id,
                     limit |-> limit, status |-> 404]
       ELSE LET image_embedding == items[item_id].image_embedding
                path == IF image_embedding = None THEN "category"
                        ELSE IF raised THEN "category_after_error" ELSE "vector"
                pages ==
                    IF path = "category"
                    THEN { [k \in 1..Len(rows) |-> item_out(items[rows[k]])] :
                             rows \in similar_by_category(items, user_id, item_id, limit) }
                    ELSE IF path = "category_after_error"
                    THEN { [k \in 1..Len(rows) |-> item_out(items[rows[k]])] :
                             rows \in similar_after_error(items, user_id, item_id, limit) }
                    ELSE { [k \in 1..Len(without_source(similar, item_id, limit)) |->
                               list_item_out(items[without_source(similar, item_id, limit)[k]])] :
                             similar \in search_by_embedding(items, dialect, image_embedding,
                                                             user_id, limit + 1, vec) }
            IN \E page \in pages :
                  last' = [op |-> "find_similar_items", user |-> user_id,
                           item_id |-> item_id, limit |-> limit, status |-> 200,
                           path |-> path,
                           vector_failed |-> path # "category" /\
                               (raised \/ vec = "error" \/ dialect # "postgresql"),
                           body |-> [items |-> page, nextCursor |-> None,
                                     search_type |-> "similarity"]]
    /\ UNCHANGED <<items, nextId, projects, nextProjectId, project_items, dialect, now, tasks,
                   chain, rate_vars, auth_vars, storage_vars>>

\* a call of list_items; the provider and the vector statement are only reached on
\* the semantic branch
list_items_call(user_id, req, provider, vec) ==
    /\ IF req.semantic /\ truthy(req.query)
       THEN vec \in { "ok", "error" }
       ELSE provider = None /\ vec = "unused"
    /\ \E response \in list_items(items, dialect, user_id, req, provider, vec) :
          last' = [op |-> "list_items", user |-> user_id, status |-> 200, req |-> req,
                   provider |-> provider, vec |-> vec, body |-> response]
    /\ UNCHANGED <<items, nextId, projects, nextProjectId, project_items, dialect, now, tasks,
                   chain, rate_vars, auth_vars, storage_vars>>

-----------------------------------------------------------------------------
(* Project handlers (projects.py) *)

\* the SELECT that opens get_project, add_item_to_project and remove_item_from_project
owns_project(user_id, project_id) ==
    project_id \in DOMAIN projects /\ projects[project_id].owner_id = user_id

link(project_id, item_id) == [project_id |-> project_id, item_id |-> item_id]

linked(rows, project_id, item_id) == BagIn(link(project_id, item_id), rows)

\* the INSERT of add_item_to_project without the composite primary key
insert_project_item_no_key(rows, dia, db, project_id, item_id) ==
    rows (+) SetToBag({ link(project_id, item_id) })

\* INSERT INTO project_items: IntegrityError, which the handler swallows, when the
\* pair is there already (composite primary key) or, where foreign keys are enforced,
\* when the item does not exist
insert_project_item(rows, dia, db, project_id, item_id) ==
    IF linked(rows, project_id, item_id) THEN rows
    ELSE IF dia = "postgresql" /\ item_id \notin DOMAIN db THEN rows
    ELSE rows (+) SetToBag({ link(project_id, item_id) })

\* the DELETE of remove_item_from_project without the item_id condition
delete_project_item_all(rows, project_id, item_id) ==
    [r \in { x \in DOMAIN rows : x.project_id # project_id } |-> rows[r]]

\* DELETE FROM project_items WHERE project_id = :project_id AND item_id = :item_id
delete_project_item(rows, project_id, item_id) ==
    [r \in DOMAIN rows \ { link(project_id, item_id) } |-> rows[r]]

\* the items of get_project: items JOIN project_items, newest first
project_item_rows(db, rows, project_id) ==
    LET joined == { i \in DOMAIN db : linked(rows, project_id, i) }
        newer == { xy \in joined \X joined :
                     db[xy[1]].created_at[1] > db[xy[2]].created_at[1] }
    IN ordered_limit(joined, Cardinality(joined), newer)

create_project(user_id, name, created_at) ==
    LET project_id == nextProjectId + 1
    IN /\ nextProjectId < MaxProjects
       /\ nextProjectId' = project_id
       /\ now' = created_at
       /\ projects' = (project_id :> [id |-> project_id, owner_id |-> user_id, name |-> name,
                                      created_at |-> Some(created_at)]) @@ projects
       /\ last' = [op |-> "create_project", user |-> user_id, status |-> 201,
                   body |-> [id |-> project_id, name |-> name]]
       /\ UNCHANGED <<items, nextId, project_items, dialect, tasks, chain, rate_vars, auth_vars, storage_vars>>

get_project(user_id, project_id) ==
    /\ IF owns_project(user_id, project_id)
       THEN \E item_rows \in project_item_rows(items, project_items, project_id) :
               last' = [op |-> "get_project", user |-> user_id, status |-> 200,
                        project_id |-> project_id,
                        body |-> [id |-> project_id, name |-> projects[project_id].name,
                                  created_at |-> to_iso(projects[project_id].created_at),
                                  items |-> [k \in 1..Len(item_rows) |->
                                                item_out(items[item_rows[k]])]]]
       ELSE last' = [op |-> "get_project", user |-> user_id, status |-> 404,
                     project_id |-> project_id]
    /\ UNCHANGED <<items, nextId, projects, nextProjectId, project_items, dialect, now, tasks,
                   chain, rate_vars, auth_vars, storage_vars>>

add_item_to_project(user_id, project_id, item_id, created_at) ==
    IF owns_project(user_id, project_id)
    THEN /\ now' = created_at
         /\ project_items' = insert_project_item(project_items, dialect, items, project_id,
                                                 item_id)
         /\ last' = [op |-> "add_item_to_project", user |-> user_id, status |-> 204,
                     project_id |-> project_id, item_id |-> item_id,
                     was_linked |-> linked(project_items, project_id, item_id)]
         /\ UNCHANGED <<items, nextId, projects, nextProjectId, dialect, tasks, chain, rate_vars, auth_vars, storage_vars>>
    ELSE /\ last' = [op |-> "add_item_to_project", user |-> user_id, status |-> 404,
                     project_id |-> project_id, item_id |-> item_id]
         /\ UNCHANGED <<items, nextId, projects, nextProjectId, project_items, dialect, now,
                        tasks, chain, rate_vars, auth_vars, storage_vars>>

remove_item_from_project(user_id, project_id, item_id) ==
    /\ IF owns_project(user_id, project_id)
       THEN /\ project_items' = delete_project_item(project_items, project_id, item_id)
            /\ last' = [op |-> "remove_item_from_project", user |-> user_id, status |-> 204,
                        project_id |-> project_id, item_id |-> item_id,
                        was_linked |-> linked(project_items, project_id, item_id)]
       ELSE /\ project_items' = project_items
            /\ last' = [op |-> "remove_item_from_project", user |-> user_id, status |-> 404,
                        project_id |-> project_id, item_id |-> item_id]
    /\ UNCHANGED <<items, nextId, projects, nextProjectId, dialect, now, tasks, chain, rate_vars, auth_vars, storage_vars>>

\* delete_project that leaves the rows of project_items alone
delete_project_links_kept(rows, project_id) == rows

\* DELETE FROM project_items WHERE project_id = :project_id
delete_project_links(rows, project_id) ==
    [r \in { x \in DOMAIN rows : x.project_id # project_id } |-> rows[r]]

\* DELETE FROM projects WHERE id = :project_id AND owner_id = :user_id
delete_project_row(rows, project_id, user_id) ==
    [q \in { x \in DOMAIN rows : ~(x = project_id /\ rows[x].owner_id = user_id) } |-> rows[q]]

\* a transaction that keeps what its statements did although the block raised
transaction_committed(before, after, raises) == after

\* with engine.begin() as connection: a table as the block leaves it, committed when
\* the block ends normally and rolled back when it raises
transaction(before, after, raises) == IF raises THEN before ELSE after

\* delete_project: the join rows go first, then the project under the owner check; when
\* that finds no row (rowcount == 0) the handler raises 404 inside the transaction
delete_project(user_id, project_id) ==
    LET links == delete_project_links(project_items, project_id)
        left == delete_project_row(projects, project_id, user_id)
        rowcount == Cardinality(DOMAIN projects \ DOMAIN left)
        raises == rowcount = 0
    IN /\ project_items' = transaction(project_items, links, raises)
       /\ projects' = transaction(projects, left, raises)
       /\ last' = IF raises
                  THEN [op |-> "delete_project", user |-> user_id, status |-> 404,
                        project_id |-> project_id]
                  ELSE [op |-> "delete_project", user |-> user_id, status |-> 204,
                        project_id |-> project_id,
                        was_linked |-> \E r \in DOMAIN project_items :
                                          r.project_id = project_id]
       /\ UNCHANGED <<items, nextId, nextProjectId, dialect, now, tasks, chain, rate_vars,
                      auth_vars, storage_vars>>

-----------------------------------------------------------------------------
(* Spec: two users working on the items table *)

\* what the embedding provider can answer
Providers == { None } \cup { Some(v) : v \in Vectors }

VectorOutcomes == { "ok", "error", "unused" }

NoChain == [active |-> FALSE]

\* URL texts of the capture workspace: production, staging, local
s_production == <<"h", ":", "/", "/", "p">>
s_staging == <<"h", ":", "/", "/", "s">>
s_localhost == <<"h", ":", "/", "/", "l">>

\* the environment variables get_settings reads, each unset (None) or set to a text
EnvNames == { "SUPABASE_JWT_SECRET", "JWT_SECRET", "ROLODEX_CAPTURE_BASE_URL",
              "ROLODEX_CAPTURE_STAGING_BASE_URL", "ROLODEX_CAPTURE_DEVELOPMENT_BASE_URL" }

NoEnviron == [name \in EnvNames |-> None]

\* os.getenv(name, default): the value when the variable is set, else the default
getenv(environ, name, default) == IF environ[name] = None THEN default ELSE environ[name][1]

\* a or b on Optional[str]: a when it is set and not empty, else b
or_else(a, b) == IF truthy(a) THEN a ELSE b

\* get_settings: Settings built from the environment, defaults of the class where
\* a variable is unset (an unset or empty staging variable gives the class default)
get_settings(environ) ==
    [supabase_jwt_secret |-> environ["SUPABASE_JWT_SECRET"],
     jwt_secret |-> environ["JWT_SECRET"],
     capture_base_url |-> getenv(environ, "ROLODEX_CAPTURE_BASE_URL", s_production),
     capture_staging_base_url |->
         or_else(environ["ROLODEX_CAPTURE_STAGING_BASE_URL"], Some(s_staging)),
     capture_development_base_url |->
         getenv(environ, "ROLODEX_CAPTURE_DEVELOPMENT_BASE_URL", s_localhost)]

\* the keys f"{client}:{request.url.path}" of the requests the model sends
RateKeys == { "k1", "k2" }

\* the threads of the pool that runs rate_limit, a dependency written as a plain def
Workers == 1..MaxWorkers

NoCall == [pc |-> "idle"]

Init ==
    /\ items = <<>>
    /\ nextId = 0
    /\ projects = <<>>
    /\ nextProjectId = 0
    /\ project_items = EmptyBag
    /\ dialect \in Dialects
    /\ now = 0
    /\ tasks = {}
    /\ last = [op |-> "none"]
    /\ chain = NoChain
    /\ RATE_BUCKETS = [key \in RateKeys |-> <<>>]
    /\ rate_calls = [w \in Workers |-> NoCall]
    /\ rate_started = 0
    /\ settings = get_settings(NoEnviron)
    /\ users_table = <<>>
    /\ instance = None
    /\ nextInstance = 0
    /\ storage_calls = [w \in Workers |-> NoCall]
    /\ storage_started = 0

\* Handlers run one at a time (each works in one database transaction): last holds
\* the request being answered until its response is taken, and the next request or
\* background task runs after that
Idle == last.op = "none"

TakeResponse ==
    /\ last.op # "none"
    /\ last' = [op |-> "none"]
    /\ UNCHANGED <<items, nextId, projects, nextProjectId, project_items, dialect, now, tasks,
                   chain, rate_vars, auth_vars, storage_vars>>

CrudCreates == { p \in ItemCreates : p.title = Some(s_lamp) }

CrudUpdates == { p \in ItemUpdates : p.colour_hex = None /\ p.title = None }

CrudProviders == { None, Some(<<1, 0>>) }

CrudRequests ==
    [query : { None, Some(s_am) }, hex : { None }, price_max : { None }, category : { None },
     vendor : { None }, limit : { Some(2) }, cursor : { None }, semantic : BOOLEAN]

CreateItem == Idle /\ nextId < MaxItems
                   /\ \E u \in Users, p \in CrudCreates, t \in ClockReads :
                         create_item(u, p, FALSE, t)

EmbeddingTask == Idle /\ \E task \in tasks, provider \in CrudProviders, stored \in BOOLEAN :
                            generate_item_embedding(task, provider, stored)

GetItem == Idle /\ \E u \in Users, i \in ItemIds : get_item(u, i)

UpdateItem == Idle /\ \E u \in Users, i \in ItemIds, p \in CrudUpdates, t \in ClockReads :
                    update_item(u, i, p, t)

DeleteItem == Idle /\ \E u \in Users, i \in ItemIds : delete_item(u, i)

BatchDeleteItems == Idle /\ \E u \in Users, ids \in SUBSET ItemIds :
                               batch_delete_items(u, ids)

ListItems == Idle /\ \E u \in Users, req \in CrudRequests, provider \in CrudProviders,
                        vec \in VectorOutcomes :
                        list_items_call(u, req, provider, vec)

Next ==
    \/ CreateItem
    \/ EmbeddingTask
    \/ GetItem
    \/ UpdateItem
    \/ DeleteItem
    \/ BatchDeleteItems
    \/ ListItems
    \/ TakeResponse

Spec == Init /\ [][Next]_vars

-----------------------------------------------------------------------------
(* Claims about the item handlers, checked under Spec *)

ItemReaders == { "list_items", "get_item", "update_item" }
ItemRequests == { "list_items", "get_item", "update_item", "delete_item", "batch_delete_items" }

\* the ids of the items a response carries
returned_ids(response) ==
    IF response.op = "list_items"
    THEN { response.body.items[k].id : k \in 1..Len(response.body.items) }
    ELSE IF response.op \in ItemReaders /\ response.status = 200
    THEN { response.body.id }
    ELSE {}

\* every item the last response carries belongs to the caller
OnlyOwnItemsReturned ==
    \A i \in returned_ids(last) : i \in DOMAIN items /\ items[i].owner_id = last.user

\* C2: list_items, get_item, update_item, delete_item and batch_delete_items issued by
\* one user never return an item of another owner and never change or remove one.
C2_OwnershipIsolation ==
    [][ last'.op \in ItemRequests =>
          /\ OnlyOwnItemsReturned'
          /\ \A i \in DOMAIN items :
                items[i].owner_id # last'.user => (i \in DOMAIN items' /\ items'[i] = items[i])
      ]_vars

\* A searches semantically and is answered from vector retrieval while B holds an
\* item with a stored embedding
C2_Witness ==
    /\ last.op = "list_items" /\ last.user = "A"
    /\ last.body.search_type = "semantic" /\ Len(last.body.items) > 0
    /\ \E i \in DOMAIN items : items[i].owner_id = "B" /\ items[i].embedding # None

\* C9: an update_item request without a field to change gets 400 and changes no item.
C9_EmptyPatchRejected ==
    [][ (last'.op = "update_item" /\ \A f \in UpdateFields : last'.req[f] = None) =>
          (last'.status = 400 /\ items' = items)
      ]_vars

\* the owner sends an empty patch for an existing item and gets 400
C9_Witness ==
    /\ last.op = "update_item" /\ last.status = 400
    /\ last.item_id \in DOMAIN items /\ items[last.item_id].owner_id = last.user

\* C10: a successful update_item changes, of the target item, only the fields of the
\* request and updated_at, and changes no other item.
C10_UpdateFrame ==
    [][ (last'.op = "update_item" /\ last'.status = 200) =>
          /\ DOMAIN items' = DOMAIN items
          /\ \A j \in DOMAIN items : j # last'.item_id => items'[j] = items[j]
          /\ \A f \in DOMAIN items[last'.item_id] :
                f \notin update_keys(last'.req) \cup {"updated_at"} =>
                   items'[last'.item_id][f] = items[last'.item_id][f]
      ]_vars

\* an update succeeded and changed the item, while a second item exists
C10_Witness ==
    /\ last.op = "update_item" /\ last.status = 200
    /\ Cardinality(DOMAIN items) >= 2
    /\ items[last.item_id].price = Some(3)
    /\ items[last.item_id].updated_at # None

\* C11: delete_item for an id that no item has, or that another owner's item has,
\* answers 404 and leaves the items table as it is, so the item is still there for
\* its owner.
C11_DeleteForeignNotFound ==
    [][ (last'.op = "delete_item"
           /\ (last'.item_id \notin DOMAIN items
                 \/ items[last'.item_id].owner_id # last'.user)) =>
          /\ last'.status = 404
          /\ items' = items
          /\ \A i \in DOMAIN items :
                i \in DOMAIN items' /\ item_out(items'[i]) = item_out(items[i])
      ]_vars

\* a user asked to delete an item of the other owner, got 404, and the item is there
C11_Witness ==
    /\ last.op = "delete_item" /\ last.status = 404
    /\ last.item_id \in DOMAIN items
    /\ items[last.item_id].owner_id # last.user

-----------------------------------------------------------------------------
(* SpecSearch: one user filling a library and searching it *)

SearchCreates == { p \in ItemCreates : p.category # None }

\* the embeddings the provider gives to item descriptions, and to search queries
SearchItemProviders == { None, Some(<<1, 0>>), Some(<<1, 1>>) }
SearchQueryProviders == { None, Some(<<1, 0>>), Some(<<0, 1>>) }

NoFilter == [hex |-> None, price_max |-> None, category |-> None, vendor |-> None]

SearchFilters ==
    { NoFilter,
      [NoFilter EXCEPT !.hex = Some(s_ff)],
      [NoFilter EXCEPT !.price_max = Some(5)],
      [NoFilter EXCEPT !.category = Some(s_light)],
      [NoFilter EXCEPT !.vendor = Some(s_acme)] }

\* limits: omitted, negative, zero, above the ceiling
SearchLimits == { None, Some(-1), Some(0), Some(101) }

SearchRequests ==
    { [query |-> q, hex |-> f.hex, price_max |-> f.price_max, category |-> f.category,
       vendor |-> f.vendor, limit |-> l, cursor |-> None, semantic |-> sem] :
      q \in { None, Some(s_am) }, f \in SearchFilters, l \in SearchLimits, sem \in BOOLEAN }

SearchCreateItem == Idle /\ nextId < MaxItems
                         /\ \E p \in SearchCreates, t \in ClockReads :
                               create_item("A", p, FALSE, t)

SearchEmbeddingTask == Idle /\ \E task \in tasks, provider \in SearchItemProviders :
                                  generate_item_embedding(task, provider, TRUE)

SearchListItems == Idle /\ \E req \in SearchRequests, provider \in SearchQueryProviders,
                              vec \in VectorOutcomes :
                              list_items_call("A", req, provider, vec)

NextSearch ==
    \/ SearchCreateItem
    \/ SearchEmbeddingTask
    \/ SearchListItems
    \/ TakeResponse

SpecSearch == Init /\ [][NextSearch]_vars

-----------------------------------------------------------------------------
(* Claims about list_items, checked under SpecSearch *)

\* the request reached the semantic branch: semantic=true with a non-empty query
AskedSemantic == last.op = "list_items" /\ last.req.semantic /\ truthy(last.req.query)

\* the caller's items vector retrieval finds for the last request: those with a stored
\* embedding nearer to the query's embedding than the threshold, when the provider
\* gave an embedding and the vector statement ran
VectorCandidates ==
    IF AskedSemantic /\ last.provider # None /\ last.vec = "ok" /\ dialect = "postgresql"
    THEN { i \in DOMAIN items :
             /\ items[i].owner_id = last.user
             /\ items[i].embedding # None
             /\ above_threshold(items[i].embedding[1], last.provider[1]) }
    ELSE {}

\* the responses the structured text query gives to the last request
TextResponses ==
    { text_response(items, rows) :
        rows \in text_rows(items, dialect, last.user, last.req,
                            clamp_limit(limit_param(last.req.limit))) }

\* C6: when the embedding provider fails or answers with an empty embedding, a
\* semantic request with a query is answered as the same request with semantic=false
\* is, with search_type "text", and no error.
C6_SemanticFallback ==
    (AskedSemantic /\ last.provider = None) =>
        /\ last.status = 200
        /\ last.body.search_type = "text"
        /\ last.body \in list_items(items, dialect, last.user,
                                    [last.req EXCEPT !.semantic = FALSE], None, "unused")

\* the provider failed although a stored embedding of a matching item was there to find
C6_Witness ==
    /\ AskedSemantic /\ last.provider = None
    /\ dialect = "postgresql"
    /\ Len(last.body.items) > 0
    /\ \E i \in DOMAIN items : items[i].embedding # None

\* C7: search_type is "semantic" exactly when vector retrieval produced the items and
\* "text" exactly when the text query did; a semantic request whose vector retrieval
\* has no candidate is answered by the text query as "text".
C7_SearchTypeNamesMode ==
    last.op = "list_items" =>
        /\ last.body.search_type \in { "semantic", "text" }
        /\ last.body.search_type = "semantic" <=> VectorCandidates # {}
        /\ last.body.search_type = "semantic" => returned_ids(last) \subseteq VectorCandidates
        /\ last.body.search_type = "text" => last.body \in TextResponses

\* the provider embedded the query and the statement ran, yet no item was near enough:
\* the text query answered and found something
C7_Witness ==
    /\ AskedSemantic /\ last.provider # None /\ last.vec = "ok" /\ dialect = "postgresql"
    /\ \E i \in DOMAIN items : items[i].embedding # None
    /\ VectorCandidates = {}
    /\ last.body.search_type = "text" /\ Len(last.body.items) > 0

\* the filters of the last request, as the claim words them
satisfies_filters(item, req) ==
    /\ truthy(req.hex) =>
          (item.colour_hex # None /\ contains(lower(item.colour_hex[1]), lower(req.hex[1])))
    /\ req.price_max # None => (item.price # None /\ item.price[1] <= req.price_max[1])
    /\ truthy(req.category) => item.category = req.category
    /\ truthy(req.vendor) => item.vendor = req.vendor

\* C8: in a semantic response every item satisfies every supplied filter, and
\* nextCursor is null.
C8_SemanticFiltersHold ==
    (last.op = "list_items" /\ last.body.search_type = "semantic") =>
        /\ last.body.nextCursor = None
        /\ \A k \in 1..Len(last.body.items) : satisfies_filters(last.body.items[k], last.req)

-----------------------------------------------------------------------------
(* SpecProjects: two users grouping items into projects *)

ProjectCreates == { p \in ItemCreates : p.title = Some(s_sofa) }

ProjectNames == { <<"p">> }

ProjectCreateItem == Idle /\ nextId < MaxLinkable
                          /\ \E u \in Users, p \in ProjectCreates, t \in ClockReads :
                                create_item(u, p, FALSE, t)

CreateProject == Idle /\ \E u \in Users, name \in ProjectNames, t \in ClockReads :
                           create_project(u, name, t)

GetProject == Idle /\ \E u \in Users, q \in ProjectIds : get_project(u, q)

AddItemToProject == Idle /\ \E u \in Users, q \in ProjectIds, i \in ItemIds, t \in ClockReads :
                              add_item_to_project(u, q, i, t)

RemoveItemFromProject == Idle /\ \E u \in Users, q \in ProjectIds, i \in ItemIds :
                                   remove_item_from_project(u, q, i)

DeleteProject == Idle /\ \E u \in Users, q \in ProjectIds : delete_project(u, q)

NextProjects ==
    \/ ProjectCreateItem
    \/ CreateProject
    \/ GetProject
    \/ AddItemToProject
    \/ RemoveItemFromProject
    \/ DeleteProject
    \/ TakeResponse

SpecProjects == Init /\ [][NextProjects]_vars

-----------------------------------------------------------------------------
(* Claims about the project handlers, checked under SpecProjects *)

\* C3: get_project answers a user only with items that user owns.
C3_ProjectItemsOwned ==
    (last.op = "get_project" /\ last.status = 200) =>
        \A k \in 1..Len(last.body.items) :
            items[last.body.items[k].id].owner_id = last.user

\* no two rows of project_items carry the same (project_id, item_id)
UniquePairs == \A r \in DOMAIN project_items : CopiesIn(r, project_items) = 1

C5_RemoveUnlinkedNoop ==
    [][ (last'.op = "remove_item_from_project"
           /\ owns_project(last'.user, last'.project_id)
           /\ ~linked(project_items, last'.project_id, last'.item_id)) =>
          (last'.status = 204 /\ project_items' = project_items)
      ]_vars

\* the owner removed an item that was not linked from a project that has a linked item
C5_Witness ==
    /\ last.op = "remove_item_from_project" /\ last.status = 204 /\ ~last.was_linked
    /\ \E r \in DOMAIN project_items : r.project_id = last.project_id

\* C16: delete_project by the project's owner succeeds and leaves neither the project
\* row nor a project_items row of that project; no project_items row ever refers to a
\* project that is not there.
C16_NoOrphanLinks ==
    [][ /\ (last'.op = "delete_project"
               /\ owns_project(last'.user, last'.project_id)) => last'.status = 204
        /\ (last'.op = "delete_project" /\ last'.status = 204) =>
              /\ last'.project_id \notin DOMAIN projects'
              /\ \A r \in DOMAIN project_items' : r.project_id # last'.project_id
        /\ \A r \in DOMAIN project_items' : r.project_id \in DOMAIN projects'
      ]_vars

\* a project that had a linked item was deleted by its owner
C16_Witness ==
    /\ last.op = "delete_project" /\ last.status = 204 /\ last.was_linked
    /\ last.project_id \notin DOMAIN projects

\* the rows of project_items that link project q, with what they hold
links_of(rows, q) == [r \in { x \in DOMAIN rows : x.project_id = q } |-> rows[r]]

\* C29: delete_project for a project id that does not exist, or that the caller does not
\* own, answers 404 and leaves the projects table and the project_items rows of that
\* project as they were.
C29_ForeignDeleteChangesNothing ==
    [][(last.op = "none" /\ last'.op = "delete_project"
            /\ ~owns_project(last'.user, last'.project_id)) =>
          /\ last'.status = 404
          /\ projects' = projects
          /\ links_of(project_items', last'.project_id)
                = links_of(project_items, last'.project_id)]_vars

\* delete_project answered 404 to a user who asked for another user's project, which
\* has an item linked to it
C29_Witness ==
    /\ last.op = "delete_project" /\ last.status = 404
    /\ last.project_id \in DOMAIN projects
    /\ projects[last.project_id].owner_id # last.user
    /\ \E r \in DOMAIN project_items : r.project_id = last.project_id

-----------------------------------------------------------------------------
(* SpecLinks: the project requests of SpecProjects together with the        *)
(* deletion of items                                                         *)

NextLinks ==
    \/ ProjectCreateItem
    \/ CreateProject
    \/ AddItemToProject
    \/ RemoveItemFromProject
    \/ DeleteProject
    \/ DeleteItem
    \/ BatchDeleteItems
    \/ TakeResponse

SpecLinks == Init /\ [][NextLinks]_vars

\* C26: every project_items row refers to an item that is there and to a project
\* that is there: deleting an item takes its rows along, and add_item_to_project
\* links no item id that no item has.
C26_LinksReferToRows ==
    \A r \in DOMAIN project_items :
        r.item_id \in DOMAIN items /\ r.project_id \in DOMAIN projects

-----------------------------------------------------------------------------
(* SpecChain: a client pages through text-mode list_items by nextCursor,   *)
(* while items are created and deleted                                     *)

ChainCreates == { p \in ItemCreates : p.category # None /\ p.price # None }

ChainRequests ==
    [query : { None }, hex : { None }, price_max : { None },
     category : { None, Some(s_light) }, vendor : { None },
     limit : { Some(1), Some(2) },
     cursor : { None }, semantic : { FALSE }]

ChainClockReads == { t \in { now, now + 1 } : t <= MaxChainClock }

ChainCreateItem == Idle /\ nextId < MaxChainItems
                        /\ \E u \in Users, p \in ChainCreates, t \in ChainClockReads :
                              create_item(u, p, FALSE, t)

ChainDeleteItem == Idle /\ \E u \in Users, i \in ItemIds : delete_item(u, i)

\* the client fixes its request and has no cursor yet; ids and rows are the id counter
\* and the size of the table it starts on
ChainBegin ==
    /\ Idle
    /\ chain = NoChain
    /\ \E req \in ChainRequests :
          chain' = [active |-> TRUE, user |-> "A", req |-> req, cursor |-> None,
                    ids |-> nextId, rows |-> Cardinality(DOMAIN items),
                    seen |-> <<>>, calls |-> 0, done |-> FALSE]
    /\ UNCHANGED <<items, nextId, projects, nextProjectId, project_items, dialect, now, tasks,
                   last, rate_vars, auth_vars, storage_vars>>

\* the client calls list_items with the cursor it holds
ChainRequest ==
    /\ Idle
    /\ chain.active /\ ~chain.done
    /\ list_items_call(chain.user, [chain.req EXCEPT !.cursor = chain.cursor], None, "unused")

\* the client reads the page and keeps its nextCursor; a null nextCursor ends the chain
ChainTake ==
    /\ last.op = "list_items"
    /\ chain' = [chain EXCEPT
                   !.seen = @ \o [k \in 1..Len(last.body.items) |-> last.body.items[k].id],
                   !.calls = @ + 1,
                   !.cursor = last.body.nextCursor,
                   !.done = (last.body.nextCursor = None)]
    /\ last' = [op |-> "none"]
    /\ UNCHANGED <<items, nextId, projects, nextProjectId, project_items, dialect, now, tasks,
                   rate_vars, auth_vars, storage_vars>>

\* a write takes its response without touching the chain
ChainTakeWrite ==
    /\ last.op \in { "create_item", "delete_item" }
    /\ TakeResponse

NextChain ==
    \/ ChainCreateItem
    \/ ChainDeleteItem
    \/ ChainBegin
    \/ ChainRequest
    \/ ChainTake
    \/ ChainTakeWrite

SpecChain == Init /\ [][NextChain]_vars

-----------------------------------------------------------------------------
(* Claims about pagination, checked under SpecChain *)

\* the chain's owner's items that match the chain's filters
ChainMatching ==
    { i \in DOMAIN items : text_where(items[i], dialect, chain.user, chain.req, None) }

\* no write has happened since the chain began: SpecChain writes by create_item, which
\* generates an id, and by delete_item, which takes a row away for good
ChainUndisturbed == nextId = chain.ids /\ Cardinality(DOMAIN items) = chain.rows

\* the owner's items have pairwise distinct created_at
ChainDistinctTimes ==
    \A i, j \in DOMAIN items :
        (items[i].owner_id = chain.user /\ items[j].owner_id = chain.user /\ i # j) =>
            items[i].created_at # items[j].created_at

\* C1: with pairwise distinct created_at and no concurrent write, the pages of a
\* cursor chain hold every matching item of the owner exactly once, and the chain
\* ends with a null nextCursor after at most one call more than there are matching items.
C1_CursorChainVisitsOnce ==
    (chain.active /\ ChainUndisturbed /\ ChainDistinctTimes) =>
        /\ \A j, k \in 1..Len(chain.seen) : j # k => chain.seen[j] # chain.seen[k]
        /\ ids_of(chain.seen) \subseteq ChainMatching
        /\ chain.calls <= Cardinality(ChainMatching) + 1
        /\ chain.done <=> (chain.calls > 0 /\ chain.cursor = None)
        /\ chain.done => ids_of(chain.seen) = ChainMatching
        /\ (~chain.done /\ chain.calls > 0) => Len(chain.seen) >= chain.calls

\* a chain of three calls over two matching items ended, passing over an item of the
\* owner that the filter excludes
C1_Witness ==
    /\ chain.active /\ chain.done /\ ChainUndisturbed /\ ChainDistinctTimes
    /\ chain.calls >= 3
    /\ Cardinality(ChainMatching) >= 2
    /\ \E i \in DOMAIN items : items[i].owner_id = chain.user /\ i \notin ChainMatching

-----------------------------------------------------------------------------
(* SpecChainWrites: a client pages through text-mode list_items by          *)
(* nextCursor while any user creates, updates and deletes items            *)

ChainUpdates == { p \in ItemUpdates : p.category # None }

WritesClockReads == { t \in { now, now + 1 } : t <= MaxWriteClock }

WritesCreateItem == Idle /\ nextId < MaxWriteItems
                         /\ \E u \in Users, p \in ChainCreates, t \in WritesClockReads :
                               create_item(u, p, FALSE, t)

ChainUpdateItem == Idle /\ \E u \in Users, i \in ItemIds, p \in ChainUpdates,
                              t \in WritesClockReads :
                              update_item(u, i, p, t)

ChainBatchDeleteItems == Idle /\ \E u \in Users, ids \in SUBSET ItemIds :
                                    batch_delete_items(u, ids)

\* an update or a batch delete takes its response without touching the chain
ChainTakeUpdate ==
    /\ last.op \in { "update_item", "batch_delete_items" }
    /\ TakeResponse

NextChainWrites ==
    \/ WritesCreateItem
    \/ ChainUpdateItem
    \/ ChainDeleteItem
    \/ ChainBatchDeleteItems
    \/ ChainBegin
    \/ ChainRequest
    \/ ChainTake
    \/ ChainTakeWrite
    \/ ChainTakeUpdate

SpecChainWrites == Init /\ [][NextChainWrites]_vars

\* the ids of the page the chain's client has been sent and not yet read
ChainPage == [k \in 1..Len(last.body.items) |-> last.body.items[k].id]

\* C28: whatever the created_at values and whatever writes come between the calls,
\* no page of a text-mode cursor chain holds an id that an earlier page of the chain
\* held or holds an id twice, and a nextCursor is an instant strictly before the
\* cursor of the call that gave it.
C28_ChainNeverRepeats ==
    /\ chain.active =>
          \A j, k \in 1..Len(chain.seen) : j # k => chain.seen[j] # chain.seen[k]
    /\ (chain.active /\ last.op = "list_items") =>
          /\ ids_of(ChainPage) \cap ids_of(chain.seen) = {}
          /\ \A j, k \in 1..Len(ChainPage) : j # k => ChainPage[j] # ChainPage[k]
          /\ (chain.cursor # None /\ last.body.nextCursor # None) =>
                /\ parse_cursor(last.body.nextCursor) # None
                /\ parse_cursor(last.body.nextCursor)[1] < parse_cursor(chain.cursor)[1]

\* a chain ended after two calls or more, with a write between its calls, having
\* passed over a matching item created at the same instant as an item it returned
C28_Witness ==
    /\ chain.active /\ chain.done /\ chain.calls >= 2
    /\ ~ChainUndisturbed
    /\ \E i \in ids_of(chain.seen), j \in ChainMatching \ ids_of(chain.seen) :
          /\ i \in DOMAIN items
          /\ items[i].created_at = items[j].created_at

-----------------------------------------------------------------------------
(* SpecFind: a client creates an item and lists its library right after     *)

s_slash == <<"a", "\\">>
s_accent == <<"E'", "a">>

FindTitles == { s_lamp, s_slash, s_accent }

FindCreates ==
    { [img_url |-> s_url, title |-> Some(t), vendor |-> None, price |-> None,
       description |-> None, colour_hex |-> None, category |-> None, notes |-> None] :
      t \in FindTitles }

\* the case-insensitive substrings of a title the client asks for: a piece of the title
\* as written, and in lower case
Substrings(t) == { SubSeq(t, i, j) : i, j \in 1..Len(t) } \ { <<>> }
FindQueries(t) == Substrings(t) \cup { lower(q) : q \in Substrings(t) }

FindRequests(t) ==
    [query : { None } \cup { Some(q) : q \in FindQueries(t) }, hex : { None },
     price_max : { None }, category : { None }, vendor : { None },
     limit : { None, Some(1) }, cursor : { None }, semantic : { FALSE }]

FindCreateItem == Idle /\ nextId < MaxItems /\ chain = NoChain
                       /\ \E u \in Users, p \in FindCreates, t \in ClockReads :
                             create_item(u, p, FALSE, t)

\* the client reads the 201 and keeps the generated id
FindTakeCreated ==
    /\ last.op = "create_item" /\ last.status = 201
    /\ chain' = [active |-> TRUE, user |-> last.user, id |-> last.body.id,
                 title |-> last.body.title[1]]
    /\ last' = [op |-> "none"]
    /\ UNCHANGED <<items, nextId, projects, nextProjectId, project_items, dialect, now, tasks,
                   rate_vars, auth_vars, storage_vars>>

\* the next request of the client: list_items, unfiltered or by a piece of the title
FindListItems ==
    /\ Idle /\ chain.active
    /\ \E req \in FindRequests(chain.title) : list_items_call(chain.user, req, None, "unused")

FindTakeListed ==
    /\ last.op = "list_items"
    /\ chain' = NoChain
    /\ last' = [op |-> "none"]
    /\ UNCHANGED <<items, nextId, projects, nextProjectId, project_items, dialect, now, tasks,
                   rate_vars, auth_vars, storage_vars>>

NextFind ==
    \/ FindCreateItem
    \/ FindTakeCreated
    \/ FindListItems
    \/ FindTakeListed

SpecFind == Init /\ [][NextFind]_vars

-----------------------------------------------------------------------------
(* Claims about create-then-list, checked under SpecFind *)

\* C12: the list_items call that follows a successful create_item of the same owner,
\* without cursor, unfiltered or with a query that is a case-insensitive substring of
\* the new item's title, answers 200 with a page that holds the new item.
C12_CreatedItemListed ==
    (last.op = "list_items" /\ chain.active) =>
        (last.status = 200 /\ chain.id \in returned_ids(last))

-----------------------------------------------------------------------------
(* SpecPage: two users fill their libraries and read pages of the text      *)
(* query, with filters, limits and cursors of every kind                    *)

s_any == <<"_">>

\* cursors: none, tick 1 written with "+00:00" and with "Z", and text that is no timestamp
s_tick == isoformat(1)
s_zulu == decimal(1) \o <<"Z">>
s_junk == <<"x">>

PageCursors == { None, Some(s_tick), Some(s_zulu), Some(s_junk) }

PageRequests ==
    [query : { None, Some(s_am), Some(s_any) }, hex : { None }, price_max : { None, Some(5) },
     category : { None }, vendor : { None }, limit : { Some(1), Some(2) },
     cursor : PageCursors,
     semantic : { FALSE }]

PageCreateItem == Idle /\ nextId < MaxItems
                       /\ \E u \in Users, p \in SearchCreates, t \in ClockReads :
                             create_item(u, p, FALSE, t)

PageListItems == Idle /\ \E u \in Users, req \in PageRequests :
                           list_items_call(u, req, None, "unused")

NextPage ==
    \/ PageCreateItem
    \/ PageListItems
    \/ TakeResponse

SpecPage == Init /\ [][NextPage]_vars

-----------------------------------------------------------------------------
(* Claims about the pages of the text query, checked under SpecPage *)

\* a column holds the query as a case-insensitive substring
holds_substring(column, query) == column # None /\ contains(lower(column[1]), lower(query))

\* the caller's items that satisfy the filters of a request and lie before its cursor
Eligible(user_id, req) ==
    LET cursor_dt == parse_cursor(req.cursor)
    IN { i \in DOMAIN items :
           /\ items[i].owner_id = user_id
           /\ truthy(req.query) =>
                 \/ holds_substring(items[i].title, req.query[1])
                 \/ holds_substring(items[i].vendor, req.query[1])
                 \/ holds_substring(items[i].description, req.query[1])
                 \/ holds_substring(items[i].category, req.query[1])
           /\ truthy(req.hex) => holds_substring(items[i].colour_hex, req.hex[1])
           /\ req.price_max # None =>
                 (items[i].price # None /\ items[i].price[1] <= req.price_max[1])
           /\ truthy(req.category) => items[i].category = req.category
           /\ truthy(req.vendor) => items[i].vendor = req.vendor
           /\ cursor_dt # None => items[i].created_at[1] < cursor_dt[1] }

\* page is the newest n of the set S of items, newest first, each once
NewestFirst(page, S, n) ==
    /\ Len(page) = Min(n, Cardinality(S))
    /\ \A k \in 1..Len(page) : page[k].id \in S
    /\ \A j, k \in 1..Len(page) :
          j < k => /\ page[j].id # page[k].id
                   /\ items[page[j].id].created_at[1] >= items[page[k].id].created_at[1]
    /\ \A i \in S : (\A k \in 1..Len(page) : page[k].id # i) =>
          \A k \in 1..Len(page) : items[i].created_at[1] <= items[page[k].id].created_at[1]

\* C13: a text-mode page is the newest limit items of the caller that satisfy every
\* supplied filter and are older than the cursor, newest first; nextCursor is the
\* created_at of the last item of the page, and null exactly when the page is empty.
C13_TextPage ==
    (last.op = "list_items" /\ last.body.search_type = "text") =>
        LET page == last.body.items
        IN /\ NewestFirst(page, Eligible(last.user, last.req),
                          clamp_limit(limit_param(last.req.limit)))
           /\ last.body.nextCursor =
                 IF Len(page) = 0 THEN None ELSE page[Len(page)].created_at
           /\ (last.body.nextCursor = None) <=> (Len(page) = 0)

\* the responses list_items can give to the last request with another cursor
WithCursor(cursor) ==
    list_items(items, dialect, last.user, [last.req EXCEPT !.cursor = cursor], None, "unused")

\* C15: a cursor that is no ISO-8601 timestamp is answered as the request without
\* cursor is, without error; a cursor ending in "Z" is answered as the same instant
\* written with "+00:00" is.
C15_CursorParsedDefensively ==
    last.op = "list_items" =>
        /\ last.req.cursor = Some(s_junk) =>
              (last.status = 200 /\ last.body \in WithCursor(None))
        /\ last.req.cursor = Some(s_zulu) =>
              (last.status = 200 /\ last.body \in WithCursor(Some(s_tick)))
        /\ last.req.cursor = Some(s_tick) => last.body \in WithCursor(Some(s_zulu))

\* a cursor ending in "Z" kept a newer item of the caller off a page that is not empty
C15_Witness ==
    /\ last.op = "list_items" /\ last.req.cursor = Some(s_zulu)
    /\ Len(last.body.items) > 0
    /\ last.body \notin WithCursor(None)
    /\ \E i \in Eligible(last.user, [last.req EXCEPT !.cursor = None]) :
          items[i].created_at[1] >= 1

-----------------------------------------------------------------------------
(* SpecSimilar: two users fill their libraries, embeddings are stored, and   *)
(* the users ask for the items similar to one of theirs                     *)

SimilarCreates == { p \in ItemCreates : p.title # None }

SimilarLimits == { 1, 2 }

SimilarCreateItem == Idle /\ nextId < MaxSimilarItems
                          /\ \E u \in Users, p \in SimilarCreates, t \in ClockReads :
                                create_item(u, p, FALSE, t)

SimilarEmbeddingTask == Idle /\ \E task \in tasks, provider \in CrudProviders :
                                   generate_item_embedding(task, provider, TRUE)

\* No statement under src/ writes items.image_embedding; the column is filled from
\* outside (models.py: "CLIP image embedding for visual similarity")
StoreImageEmbedding ==
    /\ Idle
    /\ \E i \in DOMAIN items :
          /\ items[i].image_embedding = None
          /\ items' = [items EXCEPT ![i].image_embedding = Some(<<1, 0>>)]
    /\ UNCHANGED <<nextId, projects, nextProjectId, project_items, dialect, now, tasks, last,
                   chain, rate_vars, auth_vars, storage_vars>>

FindSimilarItems ==
    Idle /\ \E u \in Users, i \in ItemIds, limit \in SimilarLimits,
               vec \in { "ok", "error" }, raised \in BOOLEAN :
               find_similar_items(u, i, limit, vec, raised)

NextSimilar ==
    \/ SimilarCreateItem
    \/ SimilarEmbeddingTask
    \/ StoreImageEmbedding
    \/ FindSimilarItems
    \/ TakeResponse

SpecSimilar == Init /\ [][NextSimilar]_vars

-----------------------------------------------------------------------------
(* Claims about find_similar_items, checked under SpecSimilar *)

\* C17: a find_similar_items response never holds the source item, holds at most limit
\* items (limit >= 1), and holds only items of the caller, on the vector path and on
\* both category fallbacks.
C17_SimilarExcludesSource ==
    (last.op = "find_similar_items" /\ last.status = 200) =>
        /\ last.limit >= 1
        /\ Len(last.body.items) <= last.limit
        /\ \A k \in 1..Len(last.body.items) :
              /\ last.body.items[k].id # last.item_id
              /\ last.body.items[k].id \in DOMAIN items
              /\ items[last.body.items[k].id].owner_id = last.user

\* the vector query found the source itself and two more items of the caller; the
\* page of limit 1 holds one of the other two
C17_Witness ==
    /\ last.op = "find_similar_items" /\ last.status = 200
    /\ last.path = "vector" /\ last.limit = 1
    /\ Len(last.body.items) = 1
    /\ items[last.item_id].embedding # None
    /\ above_threshold(items[last.item_id].embedding[1], items[last.item_id].image_embedding[1])
    /\ Cardinality({ i \in DOMAIN items : items[i].owner_id = last.user
                                           /\ items[i].embedding # None }) >= 3

\* C23: a find_similar_items response for a source item for which the embedding
\* step stored an embedding comes from vector retrieval (or from the fallback after
\* its failure), never from the fallback for a source without embedding, and the
\* query vector is the embedding stored for the item.
C23_SimilarUsesStoredEmbedding ==
    (/\ last.op = "find_similar_items" /\ last.status = 200
     /\ items[last.item_id].embedding # None) =>
        /\ last.path # "category"
        /\ items[last.item_id].image_embedding = items[last.item_id].embedding

\* C24: when vector retrieval fails, the response is one the fallback for a source
\* without embedding gives in the same state: the caller's other items of the
\* source's category, newest first, at most limit of them, with status 200.
C24_FailureFallsBack ==
    (/\ last.op = "find_similar_items" /\ last.status = 200
     /\ last.vector_failed) =>
        \E rows \in similar_by_category(items, last.user, last.item_id, last.limit) :
            /\ Len(last.body.items) = Len(rows)
            /\ \A k \in 1..Len(rows) : last.body.items[k].id = rows[k]

\* ---------------------------------------------------------------------------
\* SpecTask: the item requests of Spec, with the background embedding tasks run
\* by the event loop whenever it gets to them, a response in flight or not
\* ---------------------------------------------------------------------------

TaskEmbedding == \E task \in tasks, provider \in CrudProviders, stored \in BOOLEAN :
                    generate_item_embedding(task, provider, stored)

NextTask ==
    \/ CreateItem
    \/ TaskEmbedding
    \/ GetItem
    \/ UpdateItem
    \/ DeleteItem
    \/ BatchDeleteItems
    \/ TakeResponse

SpecTask == Init /\ [][NextTask]_vars

\* C25: create_item answers 201 with the item committed and its embedding task still
\* to run; a step of an embedding task, whenever it comes, leaves the set of item rows
\* and every field but embedding as they are, and leaves the response as it is.
C25_EmbeddingTaskDetached ==
    [][ /\ (last'.op = "create_item" /\ last.op = "none") =>
               /\ last'.status = 201
               /\ last'.body.id \in DOMAIN items'
               /\ items'[last'.body.id].embedding = None
               /\ \E task \in tasks' \ tasks : task.item_id = last'.body.id
        /\ (tasks' # tasks /\ tasks' \subseteq tasks) =>
               /\ DOMAIN items' = DOMAIN items
               /\ \A i \in DOMAIN items :
                     [items'[i] EXCEPT !.embedding = items[i].embedding] = items[i]
               /\ last' = last
      ]_vars

\* the task of the second item stored its embedding while the 201 was still on its
\* way, after the first item had been deleted and its task had run
C25_Witness ==
    /\ last.op = "create_item" /\ last.status = 201
    /\ tasks = {}
    /\ nextId = 2 /\ 1 \notin DOMAIN items
    /\ items[last.body.id].embedding # None

\* ---------------------------------------------------------------------------
\* rate_limit (api/dependencies.py): a plain def dependency, which the framework
\* runs on a pool of threads, one call per request, over the one dict of deques
\* ---------------------------------------------------------------------------

RATE_LIMIT == 60
RATE_WINDOW == 60

\* the loop condition's comparison: now - bucket[0] > _RATE_WINDOW
expired(call_now, stamp) == call_now - stamp > RATE_WINDOW

\* a deque of n stamps taken at time t, as n accepted calls at t leave it
Filled(n, t) == [i \in 1..n |-> t]

RateFills == { 0, RATE_LIMIT - 1, RATE_LIMIT }

\* the readings of time.time() a behaviour sees, in seconds
RateInstants == { 0, 1, RATE_WINDOW, RATE_WINDOW + 1 }

ended(call, status) == [pc |-> "done", key |-> call.key, now |-> call.now, status |-> status]

at(call, pc) == [pc |-> pc, key |-> call.key, now |-> call.now]

\* client, key, now = time.time(), bucket = _RATE_BUCKETS[key]
rate_limit_enter(w, key) ==
    /\ rate_calls[w].pc = "idle"
    /\ rate_started < MaxRateCalls
    /\ rate_started' = rate_started + 1
    /\ rate_calls' = [rate_calls EXCEPT ![w] = [pc |-> "while", key |-> key, now |-> now]]
    /\ UNCHANGED RATE_BUCKETS

\* while bucket ...
rate_limit_while(w) ==
    LET call == rate_calls[w] IN
    /\ call.pc = "while"
    /\ rate_calls' = [rate_calls EXCEPT ![w] =
                         IF RATE_BUCKETS[call.key] # <<>> THEN at(call, "head")
                                                          ELSE at(call, "check")]
    /\ UNCHANGED <<RATE_BUCKETS, rate_started>>

\* ... and now - bucket[0] > _RATE_WINDOW; bucket[0] of an empty deque is an IndexError
rate_limit_head(w) ==
    LET call == rate_calls[w]
        bucket == RATE_BUCKETS[call.key]
    IN /\ call.pc = "head"
       /\ rate_calls' = [rate_calls EXCEPT ![w] =
                            IF bucket = <<>> THEN ended(call, 500)
                            ELSE IF expired(call.now, Head(bucket)) THEN at(call, "popleft")
                            ELSE at(call, "check")]
       /\ UNCHANGED <<RATE_BUCKETS, rate_started>>

\* bucket.popleft(); popleft of an empty deque is an IndexError
rate_limit_popleft(w) ==
    LET call == rate_calls[w]
        bucket == RATE_BUCKETS[call.key]
    IN /\ call.pc = "popleft"
       /\ IF bucket = <<>>
          THEN /\ rate_calls' = [rate_calls EXCEPT ![w] = ended(call, 500)]
               /\ UNCHANGED RATE_BUCKETS
          ELSE /\ rate_calls' = [rate_calls EXCEPT ![w] = at(call, "while")]
               /\ RATE_BUCKETS' = [RATE_BUCKETS EXCEPT ![call.key] = Tail(bucket)]
       /\ UNCHANGED rate_started

\* if len(bucket) >= _RATE_LIMIT: raise HTTPException(status_code=429, ...)
rate_limit_check(w) ==
    LET call == rate_calls[w] IN
    /\ call.pc = "check"
    /\ rate_calls' = [rate_calls EXCEPT ![w] =
                         IF Len(RATE_BUCKETS[call.key]) >= RATE_LIMIT THEN ended(call, 429)
                                                                      ELSE at(call, "append")]
    /\ UNCHANGED <<RATE_BUCKETS, rate_started>>

\* bucket.append(now); the call returns None and the request goes on (status 200 here)
rate_limit_append(w) ==
    LET call == rate_calls[w] IN
    /\ call.pc = "append"
    /\ RATE_BUCKETS' = [RATE_BUCKETS EXCEPT ![call.key] = Append(@, call.now)]
    /\ rate_calls' = [rate_calls EXCEPT ![w] = ended(call, 200)]
    /\ UNCHANGED rate_started

\* ---------------------------------------------------------------------------
\* SpecRate: requests under two keys, served by the threads of the pool, on a
\* limiter whose deques hold the stamps of earlier accepted requests
\* ---------------------------------------------------------------------------

rest_vars == <<items, nextId, projects, nextProjectId, project_items, dialect, tasks, last,
               chain, auth_vars, storage_vars>>

InitRate ==
    /\ items = <<>>
    /\ nextId = 0
    /\ projects = <<>>
    /\ nextProjectId = 0
    /\ project_items = EmptyBag
    /\ dialect = "sqlite"
    /\ now = 0
    /\ tasks = {}
    /\ last = [op |-> "none"]
    /\ chain = NoChain
    /\ RATE_BUCKETS \in [RateKeys -> { Filled(n, 0) : n \in RateFills }]
    /\ rate_calls = [w \in Workers |-> NoCall]
    /\ rate_started = 0
    /\ settings = get_settings(NoEnviron)
    /\ users_table = <<>>
    /\ instance = None
    /\ nextInstance = 0
    /\ storage_calls = [w \in Workers |-> NoCall]
    /\ storage_started = 0

RateEnter == \E w \in Workers, key \in RateKeys :
                rate_limit_enter(w, key) /\ UNCHANGED <<rest_vars, now>>

RateWhile == \E w \in Workers : rate_limit_while(w) /\ UNCHANGED <<rest_vars, now>>

RateHead == \E w \in Workers : rate_limit_head(w) /\ UNCHANGED <<rest_vars, now>>

RatePopleft == \E w \in Workers : rate_limit_popleft(w) /\ UNCHANGED <<rest_vars, now>>

RateCheck == \E w \in Workers : rate_limit_check(w) /\ UNCHANGED <<rest_vars, now>>

RateAppend == \E w \in Workers : rate_limit_append(w) /\ UNCHANGED <<rest_vars, now>>

\* the response is sent and the thread goes back to the pool
RateReturn ==
    /\ \E w \in Workers :
          /\ rate_calls[w].pc = "done"
          /\ rate_calls' = [rate_calls EXCEPT ![w] = NoCall]
    /\ UNCHANGED <<rest_vars, now, RATE_BUCKETS, rate_started>>

\* time passes
RateTick ==
    /\ \E t \in RateInstants : t > now /\ now' = t
    /\ UNCHANGED <<rest_vars, rate_vars>>

NextRate ==
    \/ RateEnter
    \/ RateWhile
    \/ RateHead
    \/ RatePopleft
    \/ RateCheck
    \/ RateAppend
    \/ RateReturn
    \/ RateTick

SpecRate == InitRate /\ [][NextRate]_vars

\* the stamps of a deque taken during the RATE_WINDOW seconds before t
in_window(bucket, t) == { i \in 1..Len(bucket) : ~expired(t, bucket[i]) }

\* what one step of the call on thread w does, measured against the claim
rate_step_as_claimed(w) ==
    LET call == rate_calls[w]
        before == RATE_BUCKETS[call.key]
        after == RATE_BUCKETS'[call.key]
        out == rate_calls'[w]
    IN /\ \A other \in RateKeys \ {call.key} : RATE_BUCKETS'[other] = RATE_BUCKETS[other]
       /\ Len(after) < Len(before) => expired(call.now, Head(before))
       /\ out.pc = "done" =>
             /\ out.status \in { 200, 429 }
             /\ out.status = 429 <=> Cardinality(in_window(before, call.now)) >= RATE_LIMIT
             /\ out.status = 429 => after = before
             /\ out.status = 200 => after = Append(before, call.now)

\* C18: a call of rate_limit ends in 429 exactly when RATE_LIMIT stamps of its key
\* lie in the RATE_WINDOW seconds before it, and otherwise is accepted and its
\* stamp appended; a rejected call appends nothing, no call ends otherwise, no
\* call drops a stamp that is still in the window, and no call touches the
\* deque of another key.
C18_RateLimitExact ==
    [][\A w \in Workers :
          (rate_calls[w].pc \notin { "idle", "done" } /\ rate_calls'[w] # rate_calls[w])
             => rate_step_as_claimed(w)]_vars

\* C30: however the purge, the length check and the append of concurrent calls of one
\* key interleave, the deque of a key never holds more than RATE_LIMIT stamps, and so
\* never more than RATE_LIMIT stamps of requests accepted within one RATE_WINDOW.
C30_BucketWithinLimit ==
    \A key \in RateKeys :
        /\ Len(RATE_BUCKETS[key]) <= RATE_LIMIT
        /\ \A t \in RateInstants :
              Cardinality(in_window(RATE_BUCKETS[key], t)) <= RATE_LIMIT

\* ---------------------------------------------------------------------------
\* Failures of the repository layer: what the handlers and the application's
\* exception handlers (main.py) make of a SQLAlchemyError
\* ---------------------------------------------------------------------------

\* str(exc) of a SQLAlchemyError, line by line: the driver's message, then the statement
s_locked == << "(sqlite3.OperationalError) database is locked",
               "[SQL: INSERT INTO items (id, owner_id, img_url) VALUES (?, ?, ?)]" >>
s_refused == << "(psycopg2.OperationalError) connection refused",
                "(Background on this error at: https://sqlalche.me/e/20/e3q8)" >>

SQLAlchemyErrors == { [class |-> "SQLAlchemyError", text |-> t] : t \in { s_locked, s_refused } }

\* str(exc): the text the exception carries
str_exc(exc) == exc.text

HTTPException(status_code, detail) == [class |-> "HTTPException", status_code |-> status_code,
                                       detail |-> detail]

\* isinstance(exc.detail, str): the handlers of this module pass text or nothing
isinstance_str(detail) == detail # None

\* main.py http_exception_handler
http_exception_handler(exc) ==
    [status |-> exc.status_code,
     body |-> [error |-> [code |-> "http_error",
                          message |-> IF isinstance_str(exc.detail) THEN exc.detail[1]
                                      ELSE << "Request failed" >>]]]

\* main.py unhandled_exception_handler
unhandled_exception_handler(exc) ==
    [status |-> 500,
     body |-> [error |-> [code |-> "server_error", message |-> << "Internal server error" >>]]]

\* the handler the application picks for an exception that leaves a route
exception_response(exc) ==
    IF exc.class = "HTTPException" THEN http_exception_handler(exc)
                                   ELSE unhandled_exception_handler(exc)

\* create_item when connection.execute(insert(...)) raises: engine.begin() rolls
\* back, the embedding task is never created, and the except clause re-raises
create_item_insert_error(user_id, payload, stored, created_at, exc) ==
    LET stored_img_url == store_image(payload.img_url, user_id, stored)
        reraised == HTTPException(500, Some(str_exc(exc)))
    IN /\ now' = created_at
       /\ last' = [op |-> "create_item", user |-> user_id, exc |-> exc]
                     @@ exception_response(reraised)
       /\ UNCHANGED <<items, nextId, tasks, projects, nextProjectId, project_items, dialect,
                      chain, rate_vars, auth_vars, storage_vars>>

\* the item handlers that run their statements outside any try
ItemOperations == { "list_items", "get_item", "update_item", "delete_item",
                    "batch_delete_items", "find_similar_items" }

\* any of them when a statement raises: nothing is committed and the error leaves the route
item_operation_error(op, user_id, exc) ==
    /\ last' = [op |-> op, user |-> user_id, exc |-> exc] @@ exception_response(exc)
    /\ UNCHANGED <<items, nextId, tasks, projects, nextProjectId, project_items, dialect, now,
                   chain, rate_vars, auth_vars, storage_vars>>

\* ---------------------------------------------------------------------------
\* SpecErrors: item requests during which the database may fail
\* ---------------------------------------------------------------------------

ErrorsCreateItem == Idle /\ nextId < MaxItems
                         /\ \E u \in Users, p \in CrudCreates, stored \in BOOLEAN,
                               t \in ClockReads : create_item(u, p, stored, t)

ErrorsCreateItemFails ==
    Idle /\ \E u \in Users, p \in CrudCreates, stored \in BOOLEAN, t \in ClockReads,
               exc \in SQLAlchemyErrors : create_item_insert_error(u, p, stored, t, exc)

ErrorsOperationFails ==
    Idle /\ \E op \in ItemOperations, u \in Users, exc \in SQLAlchemyErrors :
               item_operation_error(op, u, exc)

NextErrors ==
    \/ ErrorsCreateItem
    \/ ErrorsCreateItemFails
    \/ ErrorsOperationFails
    \/ TakeResponse

SpecErrors == Init /\ [][NextErrors]_vars

\* a message that repeats a line of the error text
leaks(message, text) == \E i \in DOMAIN message, j \in DOMAIN text : message[i] = text[j]

\* C19: a request during which the repository layer raised is answered with
\* status 500 and a message that holds no line of the database error's text.
C19_PersistenceErrorGeneric ==
    "exc" \in DOMAIN last =>
        /\ last.status = 500
        /\ ~leaks(last.body.error.message, str_exc(last.exc))

\* ---------------------------------------------------------------------------
\* SpecStore: a client submits an ItemCreate body as JSON text; the framework
\* validates it into the payload create_item receives, and the copy of the
\* image to storage succeeds or fails
\* ---------------------------------------------------------------------------

\* the position of the first c in s, 0 when there is none
first_index(s, c) ==
    IF \E i \in 1..Len(s) : s[i] = c
    THEN CHOOSE i \in 1..Len(s) : s[i] = c /\ \A j \in 1..(i - 1) : s[j] # c
    ELSE 0

\* str() of the HttpUrl pydantic makes of a valid URL text (img_url: HttpUrl, and
\* str(payload.img_url) in create_item): scheme and host come out in lower case, an
\* empty path comes out as "/", the path is kept as written
HttpUrl(text) ==
    LET colon == first_index(text, ":")
        scheme == SubSeq(text, 1, colon - 1)
        rest == SubSeq(text, colon + 3, Len(text))
        slash == first_index(rest, "/")
        host == IF slash = 0 THEN rest ELSE SubSeq(rest, 1, slash - 1)
        path == IF slash = 0 THEN <<"/">> ELSE SubSeq(rest, slash, Len(rest))
    IN lower(scheme) \o <<":", "/", "/">> \o lower(host) \o path

u_plain == <<"h", "t", "t", "p", ":", "/", "/", "a", "/", "L">>
u_upper == <<"h", "t", "t", "p", ":", "/", "/", "A", "/", "L">>
u_bare == <<"h", "t", "t", "p", ":", "/", "/", "a">>

\* the bodies the clients submit: valid ItemCreate JSON, img_url as the client wrote it
StoreBodies ==
    { [p EXCEPT !.img_url = u] : p \in CrudCreates, u \in { u_plain, u_upper, u_bare } }

\* the ItemCreate the framework hands to create_item
ItemCreate(body) == [body EXCEPT !.img_url = HttpUrl(@)]

\* the client sends a body; whether the image can be copied is up to the network
\* and the storage service
StoreSubmit ==
    /\ Idle /\ chain = NoChain /\ nextId < MaxItems
    /\ \E u \in Users, body \in StoreBodies, stored \in BOOLEAN :
          chain' = [active |-> TRUE, user |-> u, body |-> body, stored |-> stored]
    /\ UNCHANGED <<items, nextId, projects, nextProjectId, project_items, dialect, now, tasks,
                   last, rate_vars, auth_vars, storage_vars>>

StoreCreateItem ==
    /\ Idle /\ chain.active
    /\ \E t \in ClockReads : create_item(chain.user, ItemCreate(chain.body), chain.stored, t)

StoreTakeCreated ==
    /\ last.op = "create_item"
    /\ chain' = NoChain
    /\ last' = [op |-> "none"]
    /\ UNCHANGED <<items, nextId, projects, nextProjectId, project_items, dialect, now, tasks,
                   rate_vars, auth_vars, storage_vars>>

NextStore ==
    \/ StoreSubmit
    \/ StoreCreateItem
    \/ StoreTakeCreated

SpecStore == Init /\ [][NextStore]_vars

\* the response to a create_item whose image could not be stored
StorageFailed == chain.active /\ ~chain.stored /\ last.op = "create_item"

\* the item is committed for the caller, answered with 201, and every returned field
\* the client submitted, img_url aside, is the submitted one
CommittedAsSubmitted ==
    /\ last.status = 201
    /\ last.body.id \in DOMAIN items
    /\ items[last.body.id].owner_id = chain.user
    /\ items[last.body.id].img_url = last.body.img_url
    /\ \A f \in { "title", "vendor", "price", "description", "colour_hex", "category",
                  "notes" } : last.body[f] = chain.body[f]

\* C20 as stated: when storing the image fails, the item is committed and returned
\* with 201, img_url equal to the submitted URL and every other returned field equal
\* to the submitted field.
C20_StorageFailureKeepsUrl ==
    StorageFailed => (CommittedAsSubmitted /\ last.body.img_url = chain.body.img_url)

\* C20: when storing the image fails, the item is committed and returned with 201,
\* every other returned field equal to the submitted field, and img_url is the
\* submitted URL as HttpUrl writes it: scheme and host in lower case, an empty path
\* as "/"; it is the submitted text itself when that is already written so.
C20_StorageFailureKeepsNormalUrl ==
    StorageFailed =>
        /\ CommittedAsSubmitted
        /\ last.body.img_url = HttpUrl(chain.body.img_url)
        /\ (chain.body.img_url = u_plain => last.body.img_url = chain.body.img_url)

\* storing failed for a URL submitted with an upper-case host: the item is there, its
\* img_url is the URL in lower case
C20_Witness ==
    /\ StorageFailed
    /\ chain.body.img_url = u_upper
    /\ last.status = 201
    /\ last.body.img_url = u_plain
    /\ last.body.id \in DOMAIN items

\* ---------------------------------------------------------------------------
\* Tokens: api/auth.py (register, login) and api/extension.py (create_deeplink)
\* ---------------------------------------------------------------------------

\* jwt.encode(payload, key, algorithm="HS256"): the claims, signed with the key
jwt_encode(payload, key) == [claims |-> payload, key |-> key, alg |-> "HS256"]

\* the clock counts half seconds; int(expires_at.timestamp()) is in whole seconds
TicksPerSecond == 2

TOKEN_TTL_MINUTES == 5

\* timedelta(minutes=m) and timedelta(days=d) in ticks of the clock
minutes(m) == m * 60 * TicksPerSecond
days(d) == d * 24 * minutes(60)

s_dev_secret == << "dev-secret-change-me" >>

\* create_access_token: the key is the first secret that is set and not empty, and
\* the text "dev-secret-change-me" when neither is
create_access_token(user_id, email, t) ==
    LET secret == or_else(or_else(settings.supabase_jwt_secret, settings.jwt_secret),
                          Some(s_dev_secret))
    IN jwt_encode([sub |-> user_id, email |-> email, iat |-> t, exp |-> t + days(7)],
                  secret[1])

\* hash_password with the salt secrets.token_hex drew
hash_password(password, salt) == [salt |-> salt, hash |-> <<salt, password>>]

verify_password(password, password_hash) ==
    password_hash.hash = <<password_hash.salt, password>>

\* the row select(...).where(email == payload.email.lower()).first() returns, or None
user_by_email(email) ==
    IF \E i \in DOMAIN users_table : users_table[i].email = email
    THEN Some(users_table[CHOOSE i \in DOMAIN users_table :
                             /\ users_table[i].email = email
                             /\ \A j \in 1..(i - 1) : users_table[j].email # email])
    ELSE None

UserProfile(user) == [id |-> user.id, email |-> user.email, created_at |-> isoformat(user.created_at)]

register(payload, salt, t) ==
    LET email == lower(payload.email)
        user_id == Len(users_table) + 1
        user == [id |-> user_id, email |-> email,
                 password_hash |-> hash_password(payload.password, salt), created_at |-> t]
    IN /\ now' = t
       /\ IF user_by_email(email) # None
          THEN /\ last' = [op |-> "register"]
                            @@ exception_response(HTTPException(400, Some(<<"Email already registered">>)))
               /\ UNCHANGED users_table
          ELSE /\ users_table' = Append(users_table, user)
               /\ last' = [op |-> "register", status |-> 200,
                           body |-> [access_token |-> create_access_token(user_id, email, t),
                                     token_type |-> "bearer", user |-> UserProfile(user)]]
       /\ UNCHANGED <<items, nextId, projects, nextProjectId, project_items, dialect, tasks,
                      chain, rate_vars, settings, storage_vars>>

login(payload, t) ==
    LET found == user_by_email(lower(payload.email)) IN
    /\ now' = t
    /\ last' = IF found = None \/ ~verify_password(payload.password, found[1].password_hash)
               THEN [op |-> "login"]
                       @@ exception_response(HTTPException(401, Some(<<"Invalid email or password">>)))
               ELSE [op |-> "login", status |-> 200,
                     body |-> [access_token |->
                                   create_access_token(found[1].id, found[1].email, t),
                               token_type |-> "bearer", user |-> UserProfile(found[1])]]
    /\ UNCHANGED <<items, nextId, projects, nextProjectId, project_items, dialect, tasks,
                   chain, rate_vars, auth_vars, storage_vars>>

\* resolve_capture_base that knows the production base only
resolve_capture_base_production(environment) == rstrip(settings.capture_base_url, "/")

\* Settings.resolve_capture_base; the Literal of the request admits lower case only,
\* so .lower() leaves the name as it is
resolve_capture_base(environment) ==
    LET env == IF environment = None THEN "production" ELSE environment[1] IN
    IF env = "development" THEN rstrip(settings.capture_development_base_url, "/")
    ELSE IF env = "staging"
    THEN rstrip(or_else(settings.capture_staging_base_url,
                        Some(settings.capture_base_url))[1], "/")
    ELSE rstrip(settings.capture_base_url, "/")

s_capture == <<"/", "c">>

\* str(url) if url else None, on an Optional[HttpUrl]
str_or_none(url) == IF url = None THEN None ELSE Some(HttpUrl(url[1]))

\* the DeepLinkRequest the framework makes of a valid body: image and source are HttpUrl
DeepLinkRequest(body) ==
    [body EXCEPT !.image = HttpUrl(@), !.source = str_or_none(@)]

\* create_deeplink; in the token payload a None is a key left out, in the query a
\* None is printed by urlencode as the text "None"
create_deeplink(user_id, body, t) ==
    LET payload == DeepLinkRequest(body)
        secret == or_else(settings.supabase_jwt_secret, settings.jwt_secret)
        expires_at == t + minutes(TOKEN_TTL_MINUTES)
        token_payload == [sub |-> user_id, image |-> payload.image, source |-> payload.source,
                          title |-> payload.title, exp |-> expires_at \div TicksPerSecond,
                          iss |-> "rolodex-extension"]
        token == jwt_encode(token_payload, secret[1])
        capture_path == resolve_capture_base(payload.environment) \o s_capture
        query == [image |-> payload.image,
                  source |-> IF payload.source = None THEN <<"None">> ELSE payload.source[1],
                  title |-> IF payload.title = None THEN <<"None">> ELSE payload.title[1],
                  token |-> token]
    IN /\ now' = t
       /\ last' = IF ~truthy(secret)
                  THEN [op |-> "create_deeplink", user |-> user_id, req |-> body, at |-> t]
                          @@ exception_response(
                                HTTPException(500, Some(<<"JWT signing secret not configured">>)))
                  ELSE [op |-> "create_deeplink", user |-> user_id, req |-> body, at |-> t,
                        status |-> 200,
                        body |-> [capture_url |-> [path |-> HttpUrl(capture_path),
                                                   query |-> query],
                                  expires_at |-> expires_at]]
       /\ UNCHANGED <<items, nextId, projects, nextProjectId, project_items, dialect, tasks,
                      chain, rate_vars, auth_vars, storage_vars>>

\* ---------------------------------------------------------------------------
\* SpecAuth: a process started under some environment answers register, login
\* and create_deeplink requests
\* ---------------------------------------------------------------------------

s_key1 == << "k1" >>
s_key2 == << "k2" >>
s_upper_base == <<"h", ":", "/", "/", "A", "/">>

AuthEnvirons ==
    { [NoEnviron EXCEPT !["SUPABASE_JWT_SECRET"] = k1, !["JWT_SECRET"] = k2,
                        !["ROLODEX_CAPTURE_BASE_URL"] = b] :
      k1 \in { None, Some(s_key1) }, k2 \in { None, Some(<<>>), Some(s_key2) },
      b \in { None, Some(s_upper_base) } }

InitAuth ==
    /\ items = <<>>
    /\ nextId = 0
    /\ projects = <<>>
    /\ nextProjectId = 0
    /\ project_items = EmptyBag
    /\ dialect = "sqlite"
    /\ now = 0
    /\ tasks = {}
    /\ last = [op |-> "none"]
    /\ chain = NoChain
    /\ RATE_BUCKETS = [key \in RateKeys |-> <<>>]
    /\ rate_calls = [w \in Workers |-> NoCall]
    /\ rate_started = 0
    /\ settings \in { get_settings(environ) : environ \in AuthEnvirons }
    /\ users_table = <<>>
    /\ instance = None
    /\ nextInstance = 0
    /\ storage_calls = [w \in Workers |-> NoCall]
    /\ storage_started = 0

Credentials == [email : { s_am, lower(s_am) }, password : { "p", "q" }]

DeepLinkBodies ==
    [image : { u_plain, u_upper }, source : { None, Some(u_bare) },
     title : { None, Some(s_lamp) },
     environment : { None, Some("production"), Some("staging"), Some("development") }]

AuthRegister ==
    Idle /\ Len(users_table) < MaxUsers
         /\ \E payload \in Credentials, t \in ClockReads : register(payload, "salt", t)

AuthLogin == Idle /\ \E payload \in Credentials, t \in ClockReads : login(payload, t)

AuthCreateDeeplink ==
    Idle /\ \E u \in Users, body \in DeepLinkBodies, t \in ClockReads :
               create_deeplink(u, body, t)

NextAuth ==
    \/ AuthRegister
    \/ AuthLogin
    \/ AuthCreateDeeplink
    \/ TakeResponse

SpecAuth == InitAuth /\ [][NextAuth]_vars

\* neither supabase_jwt_secret nor jwt_secret is configured
NoSecret == settings.supabase_jwt_secret = None /\ settings.jwt_secret = None

\* a response that carries a signed token
IssuesToken ==
    /\ last.op \in { "register", "login", "create_deeplink" }
    /\ last.status = 200

\* C21: without a configured signing secret no operation issues a token:
\* create_deeplink, register and login, unless they turn the request down for its
\* content (400, 401), answer with status 500.
C21_NoSecretNoToken ==
    (NoSecret /\ last.op \in { "register", "login", "create_deeplink" }) =>
        (~IssuesToken /\ last.status \in { 400, 401, 500 })

\* the base URL configured for an environment name, as the settings hold it
ConfiguredBase(environment) ==
    IF environment = Some("development") THEN settings.capture_development_base_url
    ELSE IF environment = Some("staging") /\ settings.capture_staging_base_url # None
    THEN settings.capture_staging_base_url[1]
    ELSE settings.capture_base_url

\* a deep link was issued
DeepLinked == last.op = "create_deeplink" /\ last.status = 200

\* C22 as stated: the capture_url starts with the configured base URL followed by
\* "/capture?", the token's sub is the caller, its image, source and title are the
\* request's, and its expiry is 5 minutes after the call.
C22_DeepLinkAsRequested ==
    DeepLinked =>
        LET token == last.body.capture_url.query.token.claims IN
        /\ last.body.capture_url.path = ConfiguredBase(last.req.environment) \o s_capture
        /\ token.sub = last.user
        /\ token.image = last.req.image
        /\ token.source = last.req.source
        /\ token.title = last.req.title
        /\ token.exp * TicksPerSecond = last.at + minutes(TOKEN_TTL_MINUTES)

\* C22: the capture_url starts with the base URL configured for the environment
\* (development, staging with the production base when none is set, production
\* otherwise), trailing slashes dropped and written as HttpUrl writes a URL, followed
\* by "/capture?"; the token's sub is the caller, its title the request's, its image
\* and source the request's as HttpUrl writes them; expires_at is 5 minutes after the
\* call and the token's exp is that instant in whole seconds, rounded down.
C22_DeepLinkNormalised ==
    DeepLinked =>
        LET token == last.body.capture_url.query.token.claims
            due == last.at + minutes(TOKEN_TTL_MINUTES)
        IN /\ last.body.capture_url.path
                 = HttpUrl(rstrip(ConfiguredBase(last.req.environment), "/") \o s_capture)
           /\ token.sub = last.user
           /\ token.image = HttpUrl(last.req.image)
           /\ token.source = str_or_none(last.req.source)
           /\ token.title = last.req.title
           /\ last.body.expires_at = due
           /\ token.exp * TicksPerSecond <= due
           /\ due < (token.exp + 1) * TicksPerSecond

\* a deep link for staging, asked half a second after the start with an image URL
\* written with an upper-case host: the token carries the URL in lower case
C22_Witness ==
    /\ DeepLinked
    /\ last.req.environment = Some("staging")
    /\ last.body.capture_url.path = s_staging \o s_capture
    /\ last.req.image = u_upper
    /\ last.body.capture_url.query.token.claims.image = u_plain
    /\ last.at = 1

\* ---------------------------------------------------------------------------
\* get_storage_service (storage.py): _StorageProxy._get_instance, called by the
\* dependency get_storage_dependency, a plain def that the framework runs on a
\* pool of threads, one call per request
\* ---------------------------------------------------------------------------

\* def _get_instance(self): the call starts
get_instance_enter(w) ==
    /\ storage_calls[w].pc = "idle"
    /\ storage_started < MaxStorageCalls
    /\ storage_started' = storage_started + 1
    /\ storage_calls' = [storage_calls EXCEPT ![w] = [pc |-> "test"]]
    /\ UNCHANGED <<instance, nextInstance>>

\* if self._instance is None:
get_instance_test(w) ==
    /\ storage_calls[w].pc = "test"
    /\ storage_calls' = [storage_calls EXCEPT ![w] =
                            [pc |-> IF instance = None THEN "construct" ELSE "return"]]
    /\ UNCHANGED <<instance, nextInstance, storage_started>>

\* StorageService(): a new object
get_instance_construct(w) ==
    /\ storage_calls[w].pc = "construct"
    /\ nextInstance' = nextInstance + 1
    /\ storage_calls' = [storage_calls EXCEPT ![w] = [pc |-> "assign", new |-> nextInstance + 1]]
    /\ UNCHANGED <<instance, storage_started>>

\* self._instance = ...
get_instance_assign(w) ==
    /\ storage_calls[w].pc = "assign"
    /\ instance' = Some(storage_calls[w].new)
    /\ storage_calls' = [storage_calls EXCEPT ![w] = [pc |-> "return"]]
    /\ UNCHANGED <<nextInstance, storage_started>>

\* return self._instance
get_instance_return(w) ==
    /\ storage_calls[w].pc = "return"
    /\ storage_calls' = [storage_calls EXCEPT ![w] = [pc |-> "done", got |-> instance[1]]]
    /\ UNCHANGED <<instance, nextInstance, storage_started>>

\* ---------------------------------------------------------------------------
\* SpecStorage: requests that need the storage service, served by the threads
\* of the pool in a fresh process
\* ---------------------------------------------------------------------------

base_vars == <<items, nextId, projects, nextProjectId, project_items, dialect, now, tasks, last,
               chain, rate_vars, auth_vars>>

StorageEnter == \E w \in Workers : get_instance_enter(w) /\ UNCHANGED base_vars

StorageTest == \E w \in Workers : get_instance_test(w) /\ UNCHANGED base_vars

StorageConstruct == \E w \in Workers : get_instance_construct(w) /\ UNCHANGED base_vars

StorageAssign == \E w \in Workers : get_instance_assign(w) /\ UNCHANGED base_vars

StorageReturn == \E w \in Workers : get_instance_return(w) /\ UNCHANGED base_vars

\* the request that asked for the service goes on with it and ends
StorageRelease ==
    /\ \E w \in Workers :
          /\ storage_calls[w].pc = "done"
          /\ storage_calls' = [storage_calls EXCEPT ![w] = NoCall]
    /\ UNCHANGED <<base_vars, instance, nextInstance, storage_started>>

NextStorage ==
    \/ StorageEnter
    \/ StorageTest
    \/ StorageConstruct
    \/ StorageAssign
    \/ StorageReturn
    \/ StorageRelease

SpecStorage == Init /\ [][NextStorage]_vars

\* C27: at most one StorageService is constructed, and every call of
\* get_storage_service returns that one object, whichever threads make the calls.
C27_OneStorageService ==
    /\ nextInstance <= 1
    /\ \A w \in Workers : storage_calls[w].pc = "done" => storage_calls[w].got = 1

====
